---- MODULE Spec2Model ----
(***************************************************************************)
(* Client runtime of the hyperfy world: the App entity (build / unbuild    *)
(* lifecycle, deferred entity events, crash handling, transform authoring) *)
(* and the ClientNetwork packet queue that feeds it.                       *)
(*                                                                         *)
(* One app entity is followed on every client.  A client is one record     *)
(* (the fields of `this` of the App, the loader cache and the packet queue *)
(* of its world, and history fields that only record what happened).       *)
(* The methods of the source are operators from client record to client    *)
(* record; an action applies one handler, run to its end or to its next    *)
(* await.                                                                  *)
(***************************************************************************)
EXTENDS Integers, Sequences, FiniteSets, TLC

VARIABLES app

vars == <<app>>

\* ------------------------------------------------------------------ bounds
\* cap on the build generation counter App.n
MaxN == 4
\* cap on the number of entityEvent packets a client handles
MaxEvents == 2
\* cap on the length of ClientNetwork.queue
MaxQueue == 2
\* cap on the number of chat messages a client adds
MaxChat == 2
\* cap on PlayerLocal.fallTimer, in milliseconds
MaxFall == 160
\* cap on PlayerRemote.teleport
MaxTeleport == 2
\* avatar loads in flight at a time
MaxLoads == 2
\* the listeners a script registers for one event
MaxListeners == 2
\* cap on the distance of App.hotEvents from 0
MaxHot == 8
\* cap on PlayerLocal.lastSendAt, in milliseconds
MaxSend == 250

\* ------------------------------------------------------------- the world
Clients == {1, 2}
\* null for a network id (data.mover, data.uploader)
Null == 0
\* the three script-visible hot events
HotEventCount == 3
hotEventNames == {"fixedUpdate", "update", "lateUpdate"}
internalEvents == {"fixedUpdate", "updated", "lateUpdate", "enter", "leave", "chat"}
\* PUBLIC_MAX_UPLOAD_SIZE, in megabytes
MAX_UPLOAD_SIZE == 100
\* the time the player has to fall before `falling` is set: 0.1 s, in milliseconds
FallTime == 100
\* the steepest ground the player stands on, in degrees
MaxSlope == 60
\* world.networkRate: 1/8 s, in milliseconds
NetworkRate == 125
\* handleScale keeps a scale within [0.1, 10]; scales are counted in tenths
MinScale == 1
MaxScale == 100
\* positions and yaws a pose is made of
Positions == {0, 1, 2}
\* entity ids: the app that is followed (its packets carry no id here) and the
\* player of another client
AppId == "app"
RemoteId == "remote"

\* The blueprints there are: id -> version and whether the blueprint names a
\* script.  "bx" is the blueprint a dropped model file gets (addModel: version
\* 0, script null); a client has it only once it was added to its registry.
Blueprints ==
  [b \in {"b0", "b1", "b2", "bx"} |->
     CASE b = "b0" -> [version |-> 0, script |-> FALSE]
       [] b = "b1" -> [version |-> 1, script |-> TRUE]
       [] b = "b2" -> [version |-> 2, script |-> TRUE]
       [] b = "bx" -> [version |-> 0, script |-> FALSE]]
BlueprintIds == DOMAIN Blueprints
\* the blueprints of the snapshot (world.blueprints.items after deserialize)
SnapshotBlueprints == {"b0", "b1", "b2"}
Versions == {Blueprints[b].version : b \in DOMAIN Blueprints}

Modes == [ACTIVE |-> "active", MOVING |-> "moving", ROTATING |-> "rotating",
          SCALING |-> "scaling", LOADING |-> "loading", CRASHED |-> "crashed"]

\* outcomes of script.exec: returns, throws before registering a listener,
\* throws after app.on(...) calls
ExecOutcomes == {"ok", "throws", "throwsAfterOn"}

\* a scale vector in tenths; NoScale stands for a data.scale that is not set,
\* OneScale for the (1, 1, 1) a new node has
\* the scale 1 in tenths, and how far the pointer drags a scale in one frame
UnitScale == 10
ScaleStep == 99
NoScale == [x |-> 0, y |-> 0, z |-> 0]
OneScale == [x |-> UnitScale, y |-> UnitScale, z |-> UnitScale]

NoRoot == [kind |-> "none", bp |-> "none", gen |-> 0, active |-> FALSE,
           position |-> 0, quaternion |-> 0, scale |-> OneScale]
NoBuild == [gen |-> 0, nAt |-> 0, bp |-> "none", crashed |-> FALSE, viaCrash |-> FALSE,
            kind |-> "none", modelFailed |-> FALSE, execd |-> FALSE, finished |-> FALSE,
            asked |-> FALSE, mover |-> Null, uploader |-> Null, transformMode |-> "null"]
\* no file was dropped in this step
NoDrop == [roles |-> {}, file |-> [size |-> 0, ext |-> "none"], dropped |-> FALSE]
\* no click placed the app in this step
NoClick == [mode |-> "none", position |-> 0, quaternion |-> 0, scale |-> NoScale]
\* no fixedUpdate of the player ran in this step (a step that ran keeps its
\* inputs and the jumping and falling it started from)
NoStep ==
  [ran |-> FALSE, delta |-> 0, vy |-> 0, jumping |-> FALSE, falling |-> FALSE,
   jumped |-> FALSE, sweepHit |-> FALSE, angle |-> 0]
\* no update of the player ran in this step (one that ran keeps the pose
\* packets it sent and the update time since the pose packet before them)
NoPose == [ran |-> FALSE, sent |-> 0, after |-> 0]
\* unbuild did not run in this step
NoUnbuild ==
  [ran |-> FALSE, rootActive |-> FALSE, worldActive |-> FALSE, worldNodes |-> FALSE,
   listeners |-> FALSE, worldListeners |-> FALSE, worldHeard |-> FALSE,
   hotEvents |-> 0, control |-> FALSE, bound |-> 0, hot |-> FALSE,
   abortController |-> FALSE, aborted |-> FALSE, live |-> 0]
\* no hot event was emitted in this step
NoEmit == [registered |-> 0, invoked |-> 0]
\* no fetch of the script settled in this step
NoYield == [ctl |-> 0, aborted |-> FALSE, result |-> "none"]
\* there is no remote player before entityAdded has brought it
NoRemote ==
  [exists |-> FALSE, dead |-> FALSE, hot |-> FALSE, active |-> FALSE,
   position |-> 0, quaternion |-> 0, emote |-> "idle", teleport |-> 0,
   pushes |-> <<>>, entered |-> 0, left |-> 0]
\* there is no local player before entities.deserialize has added it
NoPlayer ==
  [exists |-> FALSE, inited |-> FALSE, hot |-> FALSE, position |-> 0,
   capsule |-> 0, base |-> 0, yaw |-> 0,
   grounded |-> FALSE, groundAngle |-> 0, justLeftGround |-> FALSE,
   slipping |-> FALSE,
   jumped |-> FALSE, jumping |-> FALSE, fallTimer |-> 0, falling |-> FALSE,
   step |-> NoStep, emote |-> "idle", lastSendAt |-> 0, elapsed |-> 0,
   pose |-> NoPose, user |-> "none", avatar |-> "none", avatarUrl |-> "none",
   loads |-> <<>>]

\* ------------------------------------------------------------ PointerState
\* The scene under the pointer: a root without handlers, a node under it
\* with a child of its own, and a second node under the root. 0 is no node.
Scene ==
  <<[parent |-> 0, onPointerEnter |-> FALSE, onPointerLeave |-> FALSE,
     onPointerDown |-> FALSE, onPointerUp |-> FALSE, cursor |-> "none"],
    [parent |-> 1, onPointerEnter |-> TRUE, onPointerLeave |-> TRUE,
     onPointerDown |-> TRUE, onPointerUp |-> TRUE, cursor |-> "none"],
    [parent |-> 2, onPointerEnter |-> TRUE, onPointerLeave |-> TRUE,
     onPointerDown |-> TRUE, onPointerUp |-> FALSE, cursor |-> "pointer"],
    [parent |-> 1, onPointerEnter |-> TRUE, onPointerLeave |-> TRUE,
     onPointerDown |-> FALSE, onPointerUp |-> FALSE, cursor |-> "none"]>>

\* new PointerState(); hit, delivered, entered and twice are history: the
\* last hit, the events of this update, the nodes whose last event was
\* pointerenter, and whether a node got two of a kind in a row
NoPointerState ==
  [activePath |-> <<>>, cursor |-> "default", pressedNodes |-> <<>>,
   ran |-> FALSE, hit |-> 0, delivered |-> <<>>, entered |-> {}, twice |-> FALSE]

\* getAncestorPath: the nodes from the root down to the hit one
RECURSIVE getAncestorPath(_)
getAncestorPath(node) ==
  IF node = 0 THEN <<>> ELSE Append(getAncestorPath(Scene[node].parent), node)

\* the divergence point of the two paths: the length of their common prefix
divergence(newPath, oldPath) ==
  CHOOSE i \in 0..Len(newPath) :
    /\ i <= Len(oldPath)
    /\ \A k \in 1..i : newPath[k] = oldPath[k]
    /\ i < Len(newPath) /\ i < Len(oldPath) => newPath[i + 1] # oldPath[i + 1]

\* a handler of the node is called with the event
deliver(ps, node, type) ==
  [ps EXCEPT !.delivered = Append(@, [node |-> node, type |-> type]),
             !.twice = @ \/ (type = "pointerenter" /\ node \in ps.entered)
                         \/ (type = "pointerleave" /\ node \notin ps.entered),
             !.entered = IF type = "pointerenter" THEN @ \cup {node}
                         ELSE IF type = "pointerleave" THEN @ \ {node} ELSE @]

\* Set.delete and Set.add of activePath and pressedNodes
setDelete(set, node) == SelectSeq(set, LAMBDA n : n # node)
setAdd(set, node) ==
  IF \E k \in DOMAIN set : set[k] = node THEN set ELSE Append(set, node)

\* one round of the leave loop
leave(ps, node) ==
  [(IF Scene[node].onPointerLeave THEN deliver(ps, node, "pointerleave") ELSE ps)
     EXCEPT !.activePath = setDelete(@, node)]

\* pointer leave events bubble up from the leaf, down to index i
RECURSIVE leaveLoop(_, _, _, _)
leaveLoop(ps, oldPath, j, i) ==
  IF j <= i THEN ps ELSE leaveLoop(leave(ps, oldPath[j]), oldPath, j - 1, i)

\* pointer enter events bubble down from the divergence point; a handler
\* that stops the propagation ends the loop before the node is added
RECURSIVE enterLoop(_, _, _, _)
enterLoop(ps, newPath, j, stops) ==
  IF j > Len(newPath) THEN ps
  ELSE IF Scene[newPath[j]].onPointerEnter
       THEN IF newPath[j] \in stops
            THEN deliver(ps, newPath[j], "pointerenter")
            ELSE enterLoop([deliver(ps, newPath[j], "pointerenter")
                              EXCEPT !.activePath = setAdd(@, newPath[j])],
                           newPath, j + 1, stops)
       ELSE enterLoop([ps EXCEPT !.activePath = setAdd(@, newPath[j])],
                      newPath, j + 1, stops)

\* the cursor of the path: the first one defined from the leaf to the root
RECURSIVE pathCursor(_, _)
pathCursor(newPath, i) ==
  IF i < 1 THEN "default"
  ELSE IF Scene[newPath[i]].cursor # "none" THEN Scene[newPath[i]].cursor
       ELSE pathCursor(newPath, i - 1)

\* pointer down events from the leaf to the root
RECURSIVE downLoop(_, _, _, _)
downLoop(ps, newPath, i, stops) ==
  IF i < 1 THEN ps
  ELSE IF Scene[newPath[i]].onPointerDown
       THEN IF newPath[i] \in stops
            THEN [deliver(ps, newPath[i], "pointerdown")
                    EXCEPT !.pressedNodes = setAdd(@, newPath[i])]
            ELSE downLoop([deliver(ps, newPath[i], "pointerdown")
                             EXCEPT !.pressedNodes = setAdd(@, newPath[i])],
                          newPath, i - 1, stops)
       ELSE downLoop(ps, newPath, i - 1, stops)

\* pointer up events to the pressed nodes
RECURSIVE upLoop(_, _, _)
upLoop(ps, k, stops) ==
  IF k > Len(ps.pressedNodes) THEN ps
  ELSE IF Scene[ps.pressedNodes[k]].onPointerUp
       THEN IF ps.pressedNodes[k] \in stops
            THEN deliver(ps, ps.pressedNodes[k], "pointerup")
            ELSE upLoop(deliver(ps, ps.pressedNodes[k], "pointerup"), k + 1, stops)
       ELSE upLoop(ps, k + 1, stops)

\* PointerState.update past the enter loop: the cursor, pointer down and up
pointerDown(ps, newPath, pressed, stops) ==
  IF pressed
  THEN downLoop([ps EXCEPT !.cursor = pathCursor(newPath, Len(newPath))],
                newPath, Len(newPath), stops)
  ELSE [ps EXCEPT !.cursor = pathCursor(newPath, Len(newPath))]

pointerUp(ps, released, stops) ==
  IF released THEN [upLoop(ps, 1, stops) EXCEPT !.pressedNodes = <<>>] ELSE ps

\* PointerState.update(hit, pointerPressed, pointerReleased); the handlers
\* of the nodes in stops call stopPropagation
pointerUpdate(ps, hit, pressed, released, stops) ==
  pointerUp(
    pointerDown(
      enterLoop(leaveLoop([ps EXCEPT !.ran = TRUE, !.hit = hit, !.delivered = <<>>],
                          ps.activePath, Len(ps.activePath),
                          divergence(getAncestorPath(hit), ps.activePath)),
                getAncestorPath(hit),
                divergence(getAncestorPath(hit), ps.activePath) + 1, stops),
      getAncestorPath(hit), pressed, stops),
    released, stops)

\* ---------------------------------------------------------------- appTools
\* Strings are sequences of UTF-16 code units, files are sequences of bytes.

\* a blueprint without a name, a model, a script or a file prop
NoBlueprint ==
  [name |-> <<>>, model |-> <<>>, script |-> <<>>, locked |-> FALSE,
   frozen |-> FALSE, prop |-> [type |-> <<>>, url |-> <<>>]]
\* nothing was imported yet
NoImport ==
  [ran |-> FALSE, threw |-> FALSE, version |-> <<>>, blueprint |-> NoBlueprint,
   assets |-> <<>>]
\* nothing was exported yet
NoHyp ==
  [blueprint |-> NoBlueprint, files |-> <<>>, exported |-> FALSE, file |-> <<>>,
   imported |-> NoImport]

\* process.env.PUBLIC_VERSION, here "1"
PublicVersion == <<49>>

\* str2ab: buf[i] = str.charCodeAt(i) stores the code unit in a Uint8Array
\* element, which keeps its low eight bits
str2ab(str) == [i \in 1..Len(str) |-> str[i] % 256]

\* ab2str: String.fromCharCode of every byte
ab2str(buf) == [i \in 1..Len(buf) |-> buf[i] % 65536]

\* the characters of a JSON string literal: quote and backslash are escaped
RECURSIVE escape(_)
escape(str) ==
  IF str = <<>> THEN <<>>
  ELSE (IF Head(str) \in {34, 92} THEN <<92, Head(str)>> ELSE <<Head(str)>>)
       \o escape(Tail(str))

\* JSON.stringify of a list of strings: the literals, separated by commas
RECURSIVE stringify(_)
stringify(fields) ==
  IF fields = <<>> THEN <<>>
  ELSE <<34>> \o escape(Head(fields)) \o <<34>>
       \o (IF Len(fields) > 1 THEN <<44>> ELSE <<>>) \o stringify(Tail(fields))

\* the result of JSON.parse: a SyntaxError, or the strings
SyntaxError(out) == [threw |-> TRUE, fields |-> out]

\* JSON.parse inside a string literal, from position i on: the characters
\* up to the closing quote, with the escapes undone
RECURSIVE parseString(_, _, _)
parseString(str, i, cur) ==
  IF i > Len(str) THEN [threw |-> TRUE, value |-> cur, next |-> i]
  ELSE IF str[i] = 34 THEN [threw |-> FALSE, value |-> cur, next |-> i + 1]
  ELSE IF str[i] = 92
       THEN IF i < Len(str) /\ str[i + 1] \in {34, 92}
            THEN parseString(str, i + 2, Append(cur, str[i + 1]))
            ELSE [threw |-> TRUE, value |-> cur, next |-> i]
       ELSE parseString(str, i + 1, Append(cur, str[i]))

\* JSON.parse of a list of string literals from position i on: a literal,
\* then a comma and the rest, or the end
RECURSIVE parse(_, _, _)
RECURSIVE parseRest(_, _, _)
parseRest(str, literal, out) ==
  IF literal.threw THEN SyntaxError(out)
  ELSE IF literal.next > Len(str)
       THEN [threw |-> FALSE, fields |-> Append(out, literal.value)]
       ELSE IF str[literal.next] = 44
            THEN parse(str, literal.next + 1, Append(out, literal.value))
            ELSE SyntaxError(out)

parse(str, i, out) ==
  IF i <= Len(str) /\ str[i] = 34
  THEN parseRest(str, parseString(str, i + 1, <<>>), out)
  ELSE SyntaxError(out)

\* a boolean and a size as the header writes them
flag(b) == IF b THEN <<116>> ELSE <<102>>
digit(n) == <<48 + n>>

\* the strings of the header, in the order JSON.stringify writes them
RECURSIVE assetFields(_)
assetFields(assets) ==
  IF assets = <<>> THEN <<>>
  ELSE <<Head(assets).type, Head(assets).url, digit(Head(assets).size),
         Head(assets).mime>> \o assetFields(Tail(assets))

headerFields(header) ==
  <<header.version, header.blueprint.name, header.blueprint.model,
    header.blueprint.script, flag(header.blueprint.locked),
    flag(header.blueprint.frozen), header.blueprint.prop.type,
    header.blueprint.prop.url>> \o assetFields(header.assets)

\* the header that a parsed list of strings stands for
RECURSIVE fieldAssets(_)
fieldAssets(fields) ==
  IF Len(fields) < 4 THEN <<>>
  ELSE <<[type |-> fields[1], url |-> fields[2], size |-> fields[3][1] - 48,
          mime |-> fields[4]]>> \o fieldAssets(SubSeq(fields, 5, Len(fields)))

fieldsHeader(fields) ==
  [version |-> fields[1],
   blueprint |-> [name |-> fields[2], model |-> fields[3], script |-> fields[4],
                  locked |-> fields[5] = flag(TRUE), frozen |-> fields[6] = flag(TRUE),
                  prop |-> [type |-> fields[7], url |-> fields[8]]],
   assets |-> fieldAssets(SubSeq(fields, 9, Len(fields)))]

\* a parsed list of strings that is no header
malformed(fields) ==
  \/ Len(fields) < 8 \/ (Len(fields) - 8) % 4 # 0
  \/ fields[5] \notin {flag(TRUE), flag(FALSE)}
  \/ fields[6] \notin {flag(TRUE), flag(FALSE)}
  \/ \E k \in 0..((Len(fields) - 8) \div 4 - 1) :
       Len(fields[8 + 4 * k + 3]) # 1 \/ fields[8 + 4 * k + 3][1] \notin 48..57

\* DataView.setUint32(0, n, true) and getUint32(0, true)
setUint32(n) ==
  <<n % 256, (n \div 256) % 256, (n \div 65536) % 256, (n \div 16777216) % 256>>
getUint32(buf) == buf[1] + 256 * buf[2] + 65536 * buf[3] + 16777216 * buf[4]

\* str.endsWith(suffix)
endsWith(str, suffix) ==
  /\ Len(str) >= Len(suffix)
  /\ SubSeq(str, Len(str) - Len(suffix) + 1, Len(str)) = suffix

\* the asset of a url, with the file resolveFile gives for it
asset(type, url, files) == [type |-> type, url |-> url, file |-> files[url]]

\* the assets exportApp collects: the model, the script, the props with a url
exportAssets(blueprint, files) ==
  (IF blueprint.model # <<>>
   THEN <<asset(IF endsWith(blueprint.model, <<46, 118, 114, 109>>)
                THEN <<97, 118, 97, 116, 97, 114>>
                ELSE <<109, 111, 100, 101, 108>>, blueprint.model, files)>>
   ELSE <<>>)
  \o (IF blueprint.script # <<>>
      THEN <<asset(<<115, 99, 114, 105, 112, 116>>, blueprint.script, files)>>
      ELSE <<>>)
  \o (IF blueprint.prop.url # <<>>
      THEN <<asset(blueprint.prop.type, blueprint.prop.url, files)>>
      ELSE <<>>)

\* the bytes of the files, one after the other
RECURSIVE fileBlobs(_)
fileBlobs(assets) ==
  IF assets = <<>> THEN <<>>
  ELSE Head(assets).file.bytes \o fileBlobs(Tail(assets))

\* the header of exportApp
exportHeader(blueprint, assets) ==
  [version |-> PublicVersion,
   blueprint |-> [blueprint EXCEPT !.frozen = blueprint.locked \/ @],
   assets |-> [i \in 1..Len(assets) |->
                 [type |-> assets[i].type, url |-> assets[i].url,
                  size |-> Len(assets[i].file.bytes), mime |-> assets[i].file.type]]]

\* the file with the header size, the header and the files
hypFile(headerBytes, assets) ==
  setUint32(Len(headerBytes)) \o headerBytes \o fileBlobs(assets)

\* exportApp
exportApp(blueprint, files) ==
  hypFile(str2ab(stringify(headerFields(
            exportHeader(blueprint, exportAssets(blueprint, files))))),
          exportAssets(blueprint, files))

\* the files importApp cuts out of the buffer from position on
RECURSIVE importAssets(_, _, _)
importAssets(buffer, infos, position) ==
  IF infos = <<>> THEN <<>>
  ELSE <<[type |-> Head(infos).type, url |-> Head(infos).url,
          file |-> [bytes |-> SubSeq(buffer, position + 1,
                                     position + Head(infos).size),
                    type |-> Head(infos).mime]]>>
       \o importAssets(buffer, Tail(infos), position + Head(infos).size)

\* importApp past JSON.parse
imported(buffer, header, position) ==
  [ran |-> TRUE, threw |-> FALSE, version |-> header.version,
   blueprint |-> header.blueprint,
   assets |-> importAssets(buffer, header.assets, position)]

\* importApp of the parsed header
importParsed(buffer, parsed, position) ==
  IF parsed.threw \/ malformed(parsed.fields)
  THEN [NoImport EXCEPT !.ran = TRUE, !.threw = TRUE]
  ELSE imported(buffer, fieldsHeader(parsed.fields), position)

\* importApp
importApp(buffer) ==
  importParsed(buffer,
               parse(ab2str(SubSeq(buffer, 5, 4 + getUint32(buffer))), 1, <<>>),
               4 + getUint32(buffer))

\* ------------------------------------------------------------ App methods
RECURSIVE build(_, _, _, _)
RECURSIVE drain(_)

\* ClientNetwork.send: the packets a handler sent are kept until the next one runs
send(a, name, data) == [a EXCEPT !.sent = Append(@, [name |-> name, data |-> data])]

\* a handler starts: what the previous one sent, dispatched and clicked is gone
begin(a) ==
  [a EXCEPT !.sent = <<>>, !.dispatched = <<>>, !.click = NoClick, !.drop = NoDrop,
            !.player.step = NoStep, !.player.pose = NoPose, !.remote.pushes = <<>>, !.destroys = <<>>,
            !.unbuilt = NoUnbuild, !.yielded = NoYield, !.emitted = NoEmit,
            !.scaled = FALSE, !.worldEvents = <<>>]

\* EntityStore.setHot
setHot(a, hot) == [a EXCEPT !.hot = hot]

\* blueprint.version of the app, -1 while this.blueprint is not set
AppVersion(a) == IF a.blueprint = "none" THEN -1 ELSE Blueprints[a.blueprint].version

\* App.emit for an entity event: the callbacks of listeners[name] run
emitEvent(a, event, via) ==
  [a EXCEPT !.fired = Append(@, [seq |-> event.seq, version |-> event.version,
                                 at |-> AppVersion(a),
                                 heard |-> a.listeners, via |-> via])]

\* App.emit for fixedUpdate / update / lateUpdate: the callbacks of
\* listeners[name] are called in the order they were registered, and the
\* exception of one (the throws-th; 0: none throws) leaves the loop.  err tells
\* that a callback threw.
emit(a, throws) ==
  LET registered == IF a.listeners THEN MaxListeners ELSE 0
      err == a.listeners /\ throws # 0
  IN  [a |-> [a EXCEPT !.emitted = [registered |-> registered,
                                    invoked |-> IF err THEN throws ELSE registered]],
       err |-> err]

\* clearEventListeners that forgets the listeners on the world's events
clearEventListeners_localOnly(a) ==
  [a EXCEPT !.listeners = FALSE, !.callbacks = {}, !.listenerNames = {}]

\* App.clearEventListeners: the app's own listeners, then world.events.off for
\* every listener the script put on the world
clearEventListeners(a) ==
  [a EXCEPT !.listeners = FALSE, !.callbacks = {}, !.listenerNames = {},
            !.worldHeard = FALSE, !.worldListeners = FALSE]

\* this.abortController?.abort(): the fetches that were given its signal are
\* aborted
abort(a) ==
  IF a.abortController
  THEN [a EXCEPT !.fetches = {[f EXCEPT !.aborted = @ \/ f.ctl = a.controller] : f \in @}]
  ELSE a

\* this.control?.release()
release(a) ==
  IF a.control THEN [a EXCEPT !.bound = @ - 1, !.control = FALSE] ELSE a

\* unbuild up to the abort controller: the nodes, the listeners, the control
\* and the hot set
unbuildNodes(a) ==
  setHot(release([clearEventListeners([a EXCEPT !.root.active = FALSE,
                                                !.worldActive = FALSE,
                                                !.worldNodes = FALSE])
                    EXCEPT !.hotEvents = 0]),
         FALSE)

\* history: what unbuild left behind (live: the fetches it did not abort)
unbuildDone(a, b) ==
  [b EXCEPT !.unbuilt =
     [ran |-> TRUE, rootActive |-> b.root.active, worldActive |-> b.worldActive,
      worldNodes |-> b.worldNodes, listeners |-> b.listeners,
      worldListeners |-> b.worldListeners, worldHeard |-> b.worldHeard,
      hotEvents |-> b.hotEvents, control |-> b.control, bound |-> b.bound,
      hot |-> b.hot, abortController |-> b.abortController,
      aborted |-> a.abortController,
      live |-> Cardinality({f \in b.fetches : ~f.aborted})]]

\* unbuild that leaves the fetches of the script running
unbuild_noAbort(a) ==
  unbuildDone(a, [unbuildNodes(a) EXCEPT !.abortController = FALSE])

\* App.unbuild
unbuild(a) ==
  unbuildDone(a, [abort(unbuildNodes(a)) EXCEPT !.abortController = FALSE])

crash(a, x) == build([a EXCEPT !.owed = @ - 1], TRUE, TRUE, x)

\* the while loop at the end of build
drain(a) ==
  IF a.eventQueue = <<>> THEN a
  ELSE LET event == Head(a.eventQueue)
       IN  IF event.version > Blueprints[a.blueprint].version THEN a
           ELSE drain(emitEvent([a EXCEPT !.eventQueue = Tail(@)], event, "drain"))

\* build, after the script ran: hot set, controls, interpolators, event queue
buildFinish(a) ==
  LET a1 == IF a.mode \in {Modes.MOVING, Modes.ROTATING, Modes.SCALING}
            THEN setHot(a, TRUE) ELSE a
      a2 == IF a1.data.mover = a1.id
            THEN [a1 EXCEPT !.control = TRUE, !.bound = @ + 1] ELSE a1
      a3 == [a2 EXCEPT !.networkPos = TRUE]
      a4 == drain(a3)
  IN  [a4 EXCEPT !.building = FALSE, !.built.finished = TRUE]

\* App.on called by the script for the hot events
on(a) ==
  setHot([a EXCEPT !.listeners = TRUE, !.hotEvents = HotEventCount * MaxListeners,
                   !.callbacks = [name : hotEventNames, cb : 1..MaxListeners],
                   !.listenerNames = hotEventNames],
         TRUE)

\* send of the app proxy: an entityEvent to the server
appSend(a, name) ==
  IF name \in internalEvents THEN a
  ELSE send(a, "entityEvent", [version |-> AppVersion(a), name |-> name])

\* world.events.emit(name, data)
eventsEmit(a, name) == [a EXCEPT !.worldEvents = Append(@, name)]

\* emit of the app proxy
appEmit(a, name) == IF name \in internalEvents THEN a ELSE eventsEmit(a, name)

\* emit of the world proxy
worldEmit(a, name) == IF name \in internalEvents THEN a ELSE eventsEmit(a, name)

\* world.setHot(this, this.hotEvents > 0)
setHotEvents(a) == setHot(a, a.hotEvents > 0)

\* App.on(name, callback), one call: listeners[name] is a Set of callbacks
appOn(a, name, cb) ==
  IF name \in hotEventNames
  THEN setHotEvents([a EXCEPT !.callbacks = @ \cup {[name |-> name, cb |-> cb]},
                             !.listenerNames = @ \cup {name},
                             !.listeners = TRUE,
                             !.hotEvents = @ + 1])
  ELSE [a EXCEPT !.callbacks = @ \cup {[name |-> name, cb |-> cb]},
                 !.listenerNames = @ \cup {name},
                 !.listeners = TRUE]

\* App.off(name, callback), one call
appOff(a, name, cb) ==
  IF name \notin a.listenerNames THEN a
  ELSE IF name \in hotEventNames
  THEN setHotEvents([a EXCEPT !.callbacks = @ \ {[name |-> name, cb |-> cb]},
                             !.hotEvents = @ - 1])
  ELSE [a EXCEPT !.callbacks = @ \ {[name |-> name, cb |-> cb]}]

\* world.add(node) of the world proxy
worldAdd(a) == [a EXCEPT !.worldNodes = TRUE, !.worldActive = TRUE]

\* world.on(name, callback) of the world proxy: App.onWorldEvent
onWorldEvent(a) == [a EXCEPT !.worldListeners = TRUE, !.worldHeard = TRUE]

\* script.exec that returns: the script has put its listeners on the app and
\* on the world and a node into the world
exec(a) == onWorldEvent(worldAdd(on(a)))

\* the mode a build sets, as the spec words it: transforming only for the
\* client that is the mover, and that before the uploader is looked at
buildMode_moverSelf(a) ==
  IF a.data.mover = a.id
  THEN IF a.data.transformMode = "rotate" THEN Modes.ROTATING
       ELSE IF a.data.transformMode = "scale" THEN Modes.SCALING
       ELSE Modes.MOVING
  ELSE IF a.data.uploader # Null /\ a.data.uploader # a.id
       THEN Modes.LOADING ELSE Modes.ACTIVE

\* the mode a build sets
buildMode(a) ==
  LET m0 == IF a.data.mover # Null
            THEN IF a.data.transformMode = "rotate" THEN Modes.ROTATING
                 ELSE IF a.data.transformMode = "scale" THEN Modes.SCALING
                 ELSE Modes.MOVING
            ELSE Modes.ACTIVE
  IN  IF a.data.uploader # Null /\ a.data.uploader # a.id
      THEN Modes.LOADING ELSE m0

\* root.activate that leaves the loading placeholder out of the scene
activate_unlessLoading(a) ==
  [a EXCEPT !.root.active = (a.mode # Modes.LOADING)]

\* this.root.activate(...)
activate(a) == [a EXCEPT !.root.active = TRUE]

\* the script runs: script.exec returns, or throws into the catch that crashes
setupExec(a, x) ==
  CASE x = "ok" -> buildFinish(exec(a))
    [] x = "throws" -> crash([a EXCEPT !.owed = @ + 1], x)
    [] x = "throwsAfterOn" -> crash([on(a) EXCEPT !.owed = @ + 1], x)

\* the abort controller and the script, in ACTIVE mode with a script
setupScript(a, ctx, x) ==
  IF a.mode = Modes.ACTIVE /\ ctx.script /\ ~ctx.crashed
  THEN setupExec([a EXCEPT !.abortController = TRUE, !.controller = ctx.gen,
                           !.script = TRUE, !.built.execd = TRUE], x)
  ELSE buildFinish(a)

\* the mode, the blueprint and the root at the transform of data, activated
setupRoot(u, ctx, x) ==
  setupScript(
    activate([u EXCEPT !.mode = buildMode(u),
                       !.blueprint = ctx.bp,
                       !.root = [kind |-> ctx.kind, bp |-> ctx.bp, gen |-> ctx.gen,
                                 active |-> FALSE,
                                 position |-> u.data.position,
                                 quaternion |-> u.data.quaternion,
                                 scale |-> IF u.data.scale # NoScale THEN u.data.scale
                                           ELSE OneScale],
                       !.built = [gen |-> ctx.gen, nAt |-> u.n, bp |-> ctx.bp,
                                  crashed |-> ctx.crashed, viaCrash |-> ctx.viaCrash,
                                  kind |-> ctx.kind, modelFailed |-> ctx.modelFailed,
                                  execd |-> FALSE, finished |-> FALSE,
                                  asked |-> ctx.asked, mover |-> u.data.mover,
                                  uploader |-> u.data.uploader,
                                  transformMode |-> u.data.transformMode]]),
    ctx, x)

\* build, past the generation check: unbuild, mode, root, script
setup(a, ctx, x) == setupRoot(unbuild(a), ctx, x)

\* buildSetup without its generation check
buildSetup_unchecked(a, ctx, x) == setup(a, ctx, x)

\* build, from the generation check on
buildSetup(a, ctx, x) ==
  IF a.n # ctx.gen THEN [a EXCEPT !.aborted = TRUE] ELSE setup(a, ctx, x)

\* a build that reached an await: its continuation is kept until the load settles
suspend(a, ctx) == [a EXCEPT !.pending = @ \cup {ctx}]

\* build, from the crash-block decision on
buildCrashBlock(a, ctx, x) ==
  IF ctx.crashed \/ ctx.kind = "none"
  THEN IF "crash" \in a.cache
       THEN buildSetup(a, [ctx EXCEPT !.kind = "crash"], x)
       ELSE suspend(a, [ctx EXCEPT !.pc = "crash"])
  ELSE buildSetup(a, ctx, x)

\* buildRoot that loads the model whoever is uploading it
buildRoot_alwaysModel(a, ctx, x) ==
  IF "model" \in a.cache
  THEN buildCrashBlock(a, [ctx EXCEPT !.kind = "model", !.asked = TRUE], x)
  ELSE suspend(a, [ctx EXCEPT !.pc = "model", !.asked = TRUE])

\* build, from the root decision on
buildRoot(a, ctx, x) ==
  IF a.data.uploader # Null /\ a.data.uploader # a.id
  THEN buildCrashBlock(a, [ctx EXCEPT !.kind = "box"], x)
  ELSE IF "model" \in a.cache
       THEN buildCrashBlock(a, [ctx EXCEPT !.kind = "model", !.asked = TRUE], x)
       ELSE suspend(a, [ctx EXCEPT !.pc = "model", !.asked = TRUE])

\* App.build(crashed); viaCrash records that crash() made the call
build(a, crashed, viaCrash, x) ==
  LET n == a.n + 1
      a1 == [a EXCEPT !.building = TRUE, !.n = n]
      bp == a.data.blueprint
      ctx == [gen |-> n, pc |-> "start", bp |-> bp, crashed |-> crashed,
              viaCrash |-> viaCrash, script |-> FALSE, kind |-> "none",
              modelFailed |-> FALSE, asked |-> FALSE]
  IN  IF bp \notin a.registry
      THEN [a1 EXCEPT !.threw = n]
      ELSE IF Blueprints[bp].script
           THEN IF "script" \in a1.cache
                THEN buildRoot(a1, [ctx EXCEPT !.script = TRUE], x)
                ELSE suspend(a1, [ctx EXCEPT !.pc = "script"])
           ELSE buildRoot(a1, ctx, x)

\* App.onEvent
\* history: what onEvent found and did for the event that arrived
arrive(a, version, queued) ==
  [a EXCEPT !.arrived = @ + 1,
            !.log = Append(@, [version |-> version, building |-> a.building,
                               at |-> AppVersion(a), queued |-> queued])]

\* onEvent that looks at the version only
onEvent_unguarded(a, version) ==
  LET event == [version |-> version, seq |-> a.arrived + 1]
  IN  IF version > AppVersion(a)
      THEN [arrive(a, version, TRUE) EXCEPT !.eventQueue = Append(@, event)]
      ELSE emitEvent(arrive(a, version, FALSE), event, "direct")

\* App.onEvent
onEvent(a, version) ==
  LET event == [version |-> version, seq |-> a.arrived + 1]
  IN  IF a.building
      THEN [arrive(a, version, TRUE) EXCEPT !.eventQueue = Append(@, event)]
      ELSE IF version > Blueprints[a.blueprint].version
           THEN [arrive(a, version, TRUE) EXCEPT !.eventQueue = Append(@, event)]
           ELSE emitEvent(arrive(a, version, FALSE), event, "direct")

has(d, field) == field \in DOMAIN d

\* App.modify; networkPos and networkQuat exist only once a build has finished,
\* so pushArray on them throws before that, after data was assigned
modify(a, d, x) ==
  LET a1 == IF has(d, "blueprint") THEN [a EXCEPT !.data.blueprint = d.blueprint] ELSE a
      a2 == IF has(d, "uploader") THEN [a1 EXCEPT !.data.uploader = d.uploader] ELSE a1
      a3 == IF has(d, "mover") THEN [a2 EXCEPT !.data.mover = d.mover] ELSE a2
      a4 == IF has(d, "transformMode")
            THEN [a3 EXCEPT !.data.transformMode = d.transformMode] ELSE a3
      a5 == IF has(d, "position") THEN [a4 EXCEPT !.data.position = d.position] ELSE a4
      a6 == IF has(d, "quaternion") THEN [a5 EXCEPT !.data.quaternion = d.quaternion] ELSE a5
      a7 == IF has(d, "scale") THEN [a6 EXCEPT !.data.scale = d.scale] ELSE a6
      a8 == IF has(d, "state") THEN [a7 EXCEPT !.data.state = d.state] ELSE a7
      rebuild == has(d, "blueprint") \/ has(d, "uploader") \/ has(d, "mover")
                 \/ has(d, "transformMode") \/ has(d, "state")
  IN  IF has(d, "position") /\ ~a.networkPos THEN a5
      ELSE IF has(d, "quaternion") /\ ~a.networkPos THEN a6
      ELSE IF rebuild THEN build(a8, FALSE, FALSE, x)
      ELSE a8

\* App.move, App.rotate, App.scale
move(a, x) ==
  send(build([a EXCEPT !.data.mover = a.id, !.data.transformMode = "move"],
             FALSE, FALSE, x),
       "entityModified", [mover |-> a.id, transformMode |-> "move"])
rotate(a, x) ==
  send(build([a EXCEPT !.data.mover = a.id, !.data.transformMode = "rotate"],
             FALSE, FALSE, x),
       "entityModified", [mover |-> a.id, transformMode |-> "rotate"])
scale(a, x) ==
  send(build([a EXCEPT !.data.mover = a.id, !.data.transformMode = "scale"],
             FALSE, FALSE, x),
       "entityModified", [mover |-> a.id, transformMode |-> "scale"])

\* fixedUpdate without its try / catch
fixedUpdate_uncaught(a, throws, x) ==
  IF a.mode = Modes.ACTIVE /\ a.script
  THEN LET r == emit(a, throws)
       IN  IF r.err THEN [r.a EXCEPT !.owed = @ + 1, !.escaped = TRUE] ELSE r.a
  ELSE a

\* App.fixedUpdate
fixedUpdate(a, throws, x) ==
  IF a.mode = Modes.ACTIVE /\ a.script
  THEN LET r == emit(a, throws)
       IN  IF r.err THEN crash([r.a EXCEPT !.owed = @ + 1], x) ELSE r.a
  ELSE a

\* App.lateUpdate
lateUpdate(a, throws, x) ==
  IF a.mode = Modes.ACTIVE /\ a.script
  THEN LET r == emit(a, throws)
       IN  IF r.err THEN crash([r.a EXCEPT !.owed = @ + 1], x) ELSE r.a
  ELSE a

\* THREE.MathUtils.clamp
clamp(v, lo, hi) == IF v < lo THEN lo ELSE IF v > hi THEN hi ELSE v

\* the pointer's delta of a frame, scaled by the frame's time, in tenths:
\* pointer input 0 left it at rest, pointer input 1 moved it right and down
pointerDelta(p) == p * ScaleStep

\* App.handleScale: uniform with ShiftLeft down, per axis otherwise
handleScale(a, shift, p) ==
  LET s == a.root.scale
      d == pointerDelta(p)
  IN  [a EXCEPT !.scaled = TRUE,
                !.root.scale =
                  IF shift
                  THEN [x |-> clamp(s.x - d, MinScale, MaxScale),
                        y |-> clamp(s.y - d, MinScale, MaxScale),
                        z |-> clamp(s.z - d, MinScale, MaxScale)]
                  ELSE [x |-> clamp(s.x + d, MinScale, MaxScale),
                        y |-> clamp(s.y - d, MinScale, MaxScale),
                        z |-> s.z]]

\* handleMove, handleRotate, handleScale: the pointer moves the root
handleTransform(a, shift, p) ==
  CASE a.mode = Modes.MOVING -> [a EXCEPT !.root.position = p]
    [] a.mode = Modes.ROTATING -> [a EXCEPT !.root.quaternion = p]
    [] a.mode = Modes.SCALING -> handleScale(a, shift, p)
    [] OTHER -> a

\* place that commits the transform the app had before it was taken up
place_stale(a, x) ==
  LET a1 == [a EXCEPT !.data.mover = Null,
                      !.data.transformMode = "null",
                      !.data.state = 0,
                      !.placed = a.n + 1,
                      !.click = [mode |-> a.mode, position |-> a.root.position,
                                 quaternion |-> a.root.quaternion,
                                 scale |-> a.root.scale]]
      a2 == send(a1, "entityModified",
                 [mover |-> Null, position |-> a1.data.position,
                  quaternion |-> a1.data.quaternion, scale |-> a1.data.scale,
                  transformMode |-> "null", state |-> a1.data.state])
  IN  build(a2, FALSE, FALSE, x)

\* the left click of App.update: place the app
place(a, x) ==
  LET a1 == [a EXCEPT !.data.mover = Null,
                      !.data.position = a.root.position,
                      !.data.quaternion = a.root.quaternion,
                      !.data.scale = IF a.mode = Modes.SCALING THEN a.root.scale ELSE @,
                      !.data.transformMode = "null",
                      !.data.state = 0,
                      !.placed = a.n + 1,
                      !.click = [mode |-> a.mode, position |-> a.root.position,
                                 quaternion |-> a.root.quaternion,
                                 scale |-> a.root.scale]]
      a2 == send(a1, "entityModified",
                 [mover |-> Null, position |-> a1.data.position,
                  quaternion |-> a1.data.quaternion, scale |-> a1.data.scale,
                  transformMode |-> "null", state |-> a1.data.state])
  IN  build(a2, FALSE, FALSE, x)

\* the periodic transform update of App.update
sendTransform(a) ==
  send(a, "entityModified",
       IF a.mode = Modes.SCALING
       THEN [position |-> a.root.position, quaternion |-> a.root.quaternion,
             scale |-> a.root.scale]
       ELSE [position |-> a.root.position, quaternion |-> a.root.quaternion])

\* script update() at the end of App.update
scriptUpdate(a, throws, x) ==
  IF a.mode = Modes.ACTIVE /\ a.script
  THEN LET r == emit(a, throws)
       IN  IF r.err THEN crash([r.a EXCEPT !.owed = @ + 1], x) ELSE r.a
  ELSE a

\* App.update; this.control is null unless a build by the mover bound it, and
\* reading it then throws a TypeError out of update
update(a, throws, pressed, due, shift, p, x) ==
  IF a.data.mover = a.id
  THEN IF ~a.control
       THEN [a EXCEPT !.typeErrors = TRUE]
       ELSE LET a1 == handleTransform(a, shift, p)
                a2 == IF due THEN sendTransform(a1) ELSE a1
                a3 == IF pressed THEN place(a2, x) ELSE a2
            IN  scriptUpdate(a3, throws, x)
  ELSE scriptUpdate(a, throws, x)

\* ------------------------------------------------------------- PlayerLocal
\* the avatar of a user that names none
DefaultAvatar == "asset://avatar.vrm"

\* this.data.user.avatar || 'asset://avatar.vrm'
wantedAvatar(p) == IF p.user = "none" THEN DefaultAvatar ELSE p.user

\* applyAvatar up to loader.load: the load of the wanted avatar starts
\* unless avatarUrl names it already
applyAvatar(a) ==
  IF a.player.avatarUrl = wantedAvatar(a.player) THEN a
  ELSE [a EXCEPT !.player.loads = Append(@, wantedAvatar(a.player))]

\* the then-callback of applyAvatar, for the i-th load in flight: the loaded
\* avatar replaces the attached one and avatarUrl names it
avatarLoaded(a, i) ==
  [a EXCEPT !.player.avatar = a.player.loads[i],
            !.player.avatarUrl = a.player.loads[i],
            !.player.loads = SubSeq(@, 1, i - 1) \o SubSeq(@, i + 1, Len(@))]

\* modify of the player with data that carries user
playerModify(a, user) == applyAvatar([a EXCEPT !.player.user = user])

\* PlayerLocal.init past its await: the base at data.position, the capsule
\* at the base, the controls, and the player in the hot set
initPlayer(a) ==
  applyAvatar(
  [a EXCEPT !.player.inited = TRUE, !.player.base = a.player.position,
            !.player.capsule = a.player.position, !.player.yaw = 0,
            !.player.grounded = FALSE, !.player.justLeftGround = FALSE,
            !.player.slipping = FALSE, !.player.jumped = FALSE,
            !.player.jumping = FALSE, !.player.fallTimer = 0,
            !.player.falling = FALSE, !.player.emote = "idle",
            !.player.lastSendAt = 0, !.player.hot = TRUE])

\* new PlayerLocal(world, data, local): the constructor calls init, which
\* waits for loader.preloader when there is one
newPlayer(a, d, preloader) ==
  LET a1 == [a EXCEPT !.player = [NoPlayer EXCEPT !.exists = TRUE,
                                                   !.position = d.position]]
  IN  IF preloader THEN a1 ELSE initPlayer(a1)

\* PlayerLocal.teleport; this.capsule is undefined until init has passed its
\* await, and reading its pose then throws a TypeError out of teleport
teleport(a, d) ==
  IF ~a.player.inited THEN a
  ELSE LET a1 == [a EXCEPT !.player.capsule = d.position,
                           !.player.base = d.position,
                           !.player.yaw = IF has(d, "rotationY") THEN d.rotationY ELSE @]
       IN  send(a1, "entityModified",
                [id |-> a.id, p |-> a1.player.base, q |-> a1.player.yaw, t |-> TRUE])

\* PlayerLocal.fixedUpdate that keeps jumping and falling when it lands
playerFixedUpdate_noLanding(a, delta, sweepHit, groundAngle, platform, vy, space) ==
  LET p == a.player
      capsule == IF p.grounded /\ platform.on THEN platform.to ELSE p.capsule
      ground == sweepHit /\ groundAngle <= MaxSlope
      jumping1 == IF p.jumped /\ ~ground THEN TRUE ELSE p.jumping
      fallTimer == IF ~ground /\ vy < 0 THEN p.fallTimer + delta ELSE 0
      falling2 == IF fallTimer > FallTime THEN TRUE ELSE p.falling
      jumping2 == IF fallTimer > FallTime THEN FALSE ELSE jumping1
  IN  [a EXCEPT !.player =
         [p EXCEPT !.capsule = capsule, !.grounded = ground,
                   !.justLeftGround = ~sweepHit /\ p.grounded,
                   !.slipping = sweepHit /\ groundAngle > MaxSlope,
                   !.groundAngle = IF ground THEN groundAngle ELSE 0,
                   !.jumped = IF ground /\ ~jumping2 /\ space THEN TRUE
                              ELSE IF p.jumped /\ ~ground THEN FALSE ELSE @,
                   !.jumping = jumping2, !.fallTimer = fallTimer,
                   !.falling = falling2,
                   !.step = [ran |-> TRUE, delta |-> delta, vy |-> vy,
                             jumping |-> p.jumping, falling |-> p.falling,
                             jumped |-> p.jumped, sweepHit |-> sweepHit,
                             angle |-> groundAngle]]]

\* PlayerLocal.fixedUpdate that sets falling as soon as the fall timer reaches
\* the fall time
playerFixedUpdate_atFallTime(a, delta, sweepHit, groundAngle, platform, vy, space) ==
  LET p == a.player
      capsule == IF p.grounded /\ platform.on THEN platform.to ELSE p.capsule
      ground == sweepHit /\ groundAngle <= MaxSlope
      jumping1 == IF p.jumped /\ ~ground THEN TRUE ELSE p.jumping
      fallTimer == IF ~ground /\ vy < 0 THEN p.fallTimer + delta ELSE 0
      falling1 == IF fallTimer >= FallTime THEN TRUE ELSE p.falling
      jumping2 == IF fallTimer >= FallTime THEN FALSE ELSE jumping1
      falling2 == IF falling1 /\ ground THEN FALSE ELSE falling1
      jumping3 == IF jumping2 /\ ground THEN FALSE ELSE jumping2
  IN  [a EXCEPT !.player =
         [p EXCEPT !.capsule = capsule, !.grounded = ground,
                   !.justLeftGround = ~sweepHit /\ p.grounded,
                   !.slipping = sweepHit /\ groundAngle > MaxSlope,
                   !.groundAngle = IF ground THEN groundAngle ELSE 0,
                   !.jumped = IF ground /\ ~jumping3 /\ space THEN TRUE
                              ELSE IF p.jumped /\ ~ground THEN FALSE ELSE @,
                   !.jumping = jumping3, !.fallTimer = fallTimer,
                   !.falling = falling2,
                   !.step = [ran |-> TRUE, delta |-> delta, vy |-> vy,
                             jumping |-> p.jumping, falling |-> p.falling,
                             jumped |-> p.jumped, sweepHit |-> sweepHit,
                             angle |-> groundAngle]]]

\* PlayerLocal.fixedUpdate that takes a slope of exactly 60 degrees for steep
playerFixedUpdate_slopeInclusive(a, delta, sweepHit, groundAngle, platform, vy, space) ==
  LET p == a.player
      capsule == IF p.grounded /\ platform.on THEN platform.to ELSE p.capsule
      ground == sweepHit /\ groundAngle < MaxSlope
      jumping1 == IF p.jumped /\ ~ground THEN TRUE ELSE p.jumping
      fallTimer == IF ~ground /\ vy < 0 THEN p.fallTimer + delta ELSE 0
      falling1 == IF fallTimer > FallTime THEN TRUE ELSE p.falling
      jumping2 == IF fallTimer > FallTime THEN FALSE ELSE jumping1
      falling2 == IF falling1 /\ ground THEN FALSE ELSE falling1
      jumping3 == IF jumping2 /\ ground THEN FALSE ELSE jumping2
  IN  [a EXCEPT !.player =
         [p EXCEPT !.capsule = capsule, !.grounded = ground,
                   !.justLeftGround = ~sweepHit /\ p.grounded,
                   !.slipping = sweepHit /\ groundAngle >= MaxSlope,
                   !.groundAngle = IF ground THEN groundAngle ELSE 0,
                   !.jumped = IF ground /\ ~jumping3 /\ space THEN TRUE
                              ELSE IF p.jumped /\ ~ground THEN FALSE ELSE @,
                   !.jumping = jumping3, !.fallTimer = fallTimer,
                   !.falling = falling2,
                   !.step = [ran |-> TRUE, delta |-> delta, vy |-> vy,
                             jumping |-> p.jumping, falling |-> p.falling,
                             jumped |-> p.jumped, sweepHit |-> sweepHit,
                             angle |-> groundAngle]]]

\* PlayerLocal.fixedUpdate whose fall leaves jumping as it was
playerFixedUpdate_fallKeepsJumping(a, delta, sweepHit, groundAngle, platform, vy, space) ==
  LET p == a.player
      capsule == IF p.grounded /\ platform.on THEN platform.to ELSE p.capsule
      ground == sweepHit /\ groundAngle <= MaxSlope
      jumping1 == IF p.jumped /\ ~ground THEN TRUE ELSE p.jumping
      fallTimer == IF ~ground /\ vy < 0 THEN p.fallTimer + delta ELSE 0
      falling1 == IF fallTimer > FallTime THEN TRUE ELSE p.falling
      jumping2 == jumping1
      falling2 == IF falling1 /\ ground THEN FALSE ELSE falling1
      jumping3 == IF jumping2 /\ ground THEN FALSE ELSE jumping2
  IN  [a EXCEPT !.player =
         [p EXCEPT !.capsule = capsule, !.grounded = ground,
                   !.justLeftGround = ~sweepHit /\ p.grounded,
                   !.slipping = sweepHit /\ groundAngle > MaxSlope,
                   !.groundAngle = IF ground THEN groundAngle ELSE 0,
                   !.jumped = IF ground /\ ~jumping3 /\ space THEN TRUE
                              ELSE IF p.jumped /\ ~ground THEN FALSE ELSE @,
                   !.jumping = jumping3, !.fallTimer = fallTimer,
                   !.falling = falling2,
                   !.step = [ran |-> TRUE, delta |-> delta, vy |-> vy,
                             jumping |-> p.jumping, falling |-> p.falling,
                             jumped |-> p.jumped, sweepHit |-> sweepHit,
                             angle |-> groundAngle]]]

\* PlayerLocal.fixedUpdate(delta).  The physics scene gives the ground sweep
\* (sweepHit and the angle of the ground it hit), the pose a moving platform
\* carries the capsule to (platform) and the capsule's vertical velocity (vy);
\* the controls give the Space button.
playerFixedUpdate(a, delta, sweepHit, groundAngle, platform, vy, space) ==
  LET p == a.player
      capsule == IF p.grounded /\ platform.on THEN platform.to ELSE p.capsule
      ground == sweepHit /\ groundAngle <= MaxSlope
      jumping1 == IF p.jumped /\ ~ground THEN TRUE ELSE p.jumping
      fallTimer == IF ~ground /\ vy < 0 THEN p.fallTimer + delta ELSE 0
      falling1 == IF fallTimer > FallTime THEN TRUE ELSE p.falling
      jumping2 == IF fallTimer > FallTime THEN FALSE ELSE jumping1
      falling2 == IF falling1 /\ ground THEN FALSE ELSE falling1
      jumping3 == IF jumping2 /\ ground THEN FALSE ELSE jumping2
  IN  [a EXCEPT !.player =
         [p EXCEPT !.capsule = capsule, !.grounded = ground,
                   !.justLeftGround = ~sweepHit /\ p.grounded,
                   !.slipping = sweepHit /\ groundAngle > MaxSlope,
                   !.groundAngle = IF ground THEN groundAngle ELSE 0,
                   !.jumped = IF ground /\ ~jumping3 /\ space THEN TRUE
                              ELSE IF p.jumped /\ ~ground THEN FALSE ELSE @,
                   !.jumping = jumping3, !.fallTimer = fallTimer,
                   !.falling = falling2,
                   !.step = [ran |-> TRUE, delta |-> delta, vy |-> vy,
                             jumping |-> p.jumping, falling |-> p.falling,
                             jumped |-> p.jumped, sweepHit |-> sweepHit,
                             angle |-> groundAngle]]]

\* the emote PlayerLocal.update picks
playerEmote(p, moving, running) ==
  IF p.jumping \/ p.falling THEN "float"
  ELSE IF moving THEN (IF running THEN "run" ELSE "walk")
  ELSE "idle"

\* history: the pose packets an update sent, the update time that had passed
\* since the pose packet before them, and the time that has passed since
posed(a, b, delta) ==
  [b EXCEPT !.player.pose =
              [ran |-> TRUE,
               sent |-> Cardinality({i \in DOMAIN b.sent : has(b.sent[i].data, "e")}),
               after |-> a.player.elapsed + delta],
            !.player.elapsed =
              IF \E i \in DOMAIN b.sent : has(b.sent[i].data, "e") THEN 0
              ELSE a.player.elapsed + delta]

\* the network send that leaves lastSendAt as it is
sendPose_noReset(a) ==
  IF a.player.lastSendAt >= NetworkRate
  THEN send(a, "entityModified",
            [id |-> a.id, p |-> a.player.base, q |-> a.player.yaw,
             e |-> a.player.emote])
  ELSE a

\* the network send of PlayerLocal.update, once lastSendAt was added delta
sendPose(a) ==
  IF a.player.lastSendAt >= NetworkRate
  THEN send([a EXCEPT !.player.lastSendAt = 0], "entityModified",
            [id |-> a.id, p |-> a.player.base, q |-> a.player.yaw,
             e |-> a.player.emote])
  ELSE a

\* the end of PlayerLocal.update: the pointer state gets the hit under the
\* pointer, which is null while the pointer is locked
hover(a, hit, pressed, released, stops) ==
  [a EXCEPT !.pointerState = pointerUpdate(@, hit, pressed, released, stops)]

\* PlayerLocal.update(delta) with the pointer locked: the emote, the network
\* send and the pointer state
playerUpdate(a, delta, moving, running) ==
  hover(posed(a, sendPose([a EXCEPT !.player.emote = playerEmote(a.player, moving, running),
                                    !.player.lastSendAt = @ + delta]),
              delta),
        0, FALSE, FALSE, {})

\* ------------------------------------------------------------ PlayerRemote
\* new PlayerRemote(world, data, local): init has no await and runs to its end
newRemote(a, d) ==
  [a EXCEPT !.remote = [NoRemote EXCEPT !.exists = TRUE, !.active = TRUE,
                                         !.position = d.position, !.hot = TRUE,
                                         !.entered = a.remote.entered + 1,
                                         !.left = a.remote.left]]

\* the pushArray of an interpolator, with the teleport counter it was given
pushArray(r, key, value, at) ==
  [r EXCEPT !.pushes = Append(@, [key |-> key, value |-> value, at |-> at,
                                  teleport |-> r.teleport])]

\* PlayerRemote.modify that counts the teleport after it has pushed the pose
remoteModify_countLast(a, d) ==
  LET at == Len(a.dispatched) + 1
      r1 == IF has(d, "p") THEN pushArray([a.remote EXCEPT !.position = d.p], "p", d.p, at)
            ELSE a.remote
      r2 == IF has(d, "q") THEN pushArray([r1 EXCEPT !.quaternion = d.q], "q", d.q, at)
            ELSE r1
      r3 == IF has(d, "e") THEN [r2 EXCEPT !.emote = d.e] ELSE r2
      r4 == IF has(d, "t") THEN [r3 EXCEPT !.teleport = @ + 1] ELSE r3
  IN  [a EXCEPT !.remote = r4]

\* PlayerRemote.modify
remoteModify(a, d) ==
  LET at == Len(a.dispatched) + 1
      r0 == IF has(d, "t") THEN [a.remote EXCEPT !.teleport = @ + 1] ELSE a.remote
      r1 == IF has(d, "p") THEN pushArray([r0 EXCEPT !.position = d.p], "p", d.p, at)
            ELSE r0
      r2 == IF has(d, "q") THEN pushArray([r1 EXCEPT !.quaternion = d.q], "q", d.q, at)
            ELSE r1
      r3 == IF has(d, "e") THEN [r2 EXCEPT !.emote = d.e] ELSE r2
  IN  [a EXCEPT !.remote = r3]

\* --------------------------------------------------- destroy and the store
RECURSIVE destroy(_, _)
RECURSIVE remoteDestroy(_, _)
RECURSIVE remove(_, _)

\* history: a call of destroy, and whether it found the entity dead
destroyCalled(a, id, local, dead) ==
  [a EXCEPT !.destroys = Append(@, [id |-> id, local |-> local, dead |-> dead])]

\* Entities.remove(id): the entity, if the store has it, is destroyed and deleted
remove(a, id) ==
  IF id = AppId
  THEN IF ~a.exists THEN a ELSE [destroy(a, FALSE) EXCEPT !.exists = FALSE]
  ELSE IF ~a.remote.exists THEN a
       ELSE [remoteDestroy(a, FALSE) EXCEPT !.remote.exists = FALSE]

\* destroy whose dead check guards the clean-up but not the broadcast
destroy_resend(a, local) ==
  LET a1 == IF a.dead THEN a ELSE remove(unbuild([a EXCEPT !.dead = TRUE]), AppId)
  IN  IF local
      THEN send([a1 EXCEPT !.removed = @ + 1], "entityRemoved", [id |-> AppId])
      ELSE a1

\* App.destroy(local)
destroy(a, local) ==
  IF a.dead THEN a
  ELSE LET a1 == [a EXCEPT !.dead = TRUE]
           a2 == unbuild(a1)
           a3 == remove(a2, AppId)
       IN  IF local
           THEN send([a3 EXCEPT !.removed = @ + 1], "entityRemoved", [id |-> AppId])
           ELSE a3

\* PlayerRemote.destroy(local)
remoteDestroy(a, local) ==
  IF a.remote.dead THEN a
  ELSE LET a1 == [a EXCEPT !.remote.dead = TRUE, !.remote.active = FALSE,
                           !.remote.hot = FALSE, !.remote.left = @ + 1]
           a2 == remove(a1, RemoteId)
       IN  IF local
           THEN send([a2 EXCEPT !.removed = @ + 1], "entityRemoved", [id |-> RemoteId])
           ELSE a2

\* ---------------------------------------------------------- ClientNetwork
RECURSIVE flush(_, _)
RECURSIVE flush_uncaught(_, _)

enqueue(a, method, data) ==
  [a EXCEPT !.queue = Append(@, [method |-> method, data |-> data])]

\* onPacket that hands the packet to its handler at once
onPacket_immediate(a, method, data) == flush(enqueue(a, method, data), "ok")

\* ClientNetwork.onPacket
onPacket(a, method, data) == enqueue(a, method, data)

\* entities.get(data.id).modify(data); on an id the store does not have, the
\* call on undefined throws a TypeError
onEntityModified(a, data, x) ==
  IF has(data, "id") /\ data.id = RemoteId
  THEN IF a.remote.exists THEN remoteModify(a, data) ELSE a
  ELSE IF a.exists THEN modify(a, data, x) ELSE a

onEntityEvent(a, event) == IF a.exists THEN onEvent(a, event.version) ELSE a

\* Chat.add(msg, broadcast)
chatAdd(a, broadcast) ==
  LET a1 == [a EXCEPT !.chat = @ + 1]
  IN  IF broadcast THEN send(a1, "chatAdded", [nth |-> a1.chat]) ELSE a1

\* Blueprints.add(blueprint, local)
addBlueprint(a, id, local) ==
  LET a1 == [a EXCEPT !.registry = @ \cup {id}]
  IN  IF local THEN send(a1, "blueprintAdded", [id |-> id]) ELSE a1

\* Entities.add(data, local): the App constructor starts the first build
addEntity(a, d, local, x) ==
  LET a1 == build([a EXCEPT !.exists = TRUE, !.data = d], FALSE, FALSE, x)
  IN  IF local THEN send(a1, "entityAdded", d) ELSE a1

\* Entities.deserialize
deserializeEntities(a, entities, x) ==
  IF entities = <<>> THEN a ELSE addEntity(a, entities[1], FALSE, x)

\* Entities.deserialize for the entity of the local player, when the snapshot
\* is followed that far; blueprints.deserialize started the preloader when a
\* blueprint asks for preload
deserializePlayer(a, data) ==
  IF has(data, "player") THEN newPlayer(a, data.player, data.preload) ELSE a

\* onSnapshot that deserializes the entities before the blueprints
onSnapshot_entitiesFirst(a, data, x) ==
  LET a1 == [a EXCEPT !.id = data.id]
      a2 == [a1 EXCEPT !.chat = data.chat]
      a3 == deserializePlayer(deserializeEntities(a2, data.entities, x), data)
      a4 == [a3 EXCEPT !.registry = data.blueprints]
  IN  [a4 EXCEPT !.token = data.authToken]

\* ClientNetwork.onSnapshot
onSnapshot(a, data, x) ==
  LET a1 == [a EXCEPT !.id = data.id]
      a2 == [a1 EXCEPT !.chat = data.chat]
      a3 == [a2 EXCEPT !.registry = data.blueprints]
      a4 == deserializePlayer(deserializeEntities(a3, data.entities, x), data)
  IN  [a4 EXCEPT !.token = data.authToken]

\* ClientNetwork.onEntityAdded, for the player of another client
onEntityAdded(a, data) == newRemote(a, data)

\* ClientNetwork.onEntityRemoved
onEntityRemoved(a, data) ==
  LET dead == IF data.id = AppId THEN a.dead \/ ~a.exists
              ELSE a.remote.dead \/ ~a.remote.exists
  IN  remove(destroyCalled(a, data.id, FALSE, dead), data.id)

\* ClientNetwork.onPlayerTeleport
onPlayerTeleport(a, data) == IF a.player.exists THEN teleport(a, data) ELSE a

\* whether the handler of the packet throws
handlerThrows(a, packet) ==
  \/ /\ packet.method = "entityModified"
     /\ ~has(packet.data, "id")
     /\ \/ ~a.exists
        \/ /\ ~a.networkPos
           /\ has(packet.data, "position") \/ has(packet.data, "quaternion")
  \/ /\ packet.method = "entityModified"
     /\ has(packet.data, "id")
     /\ ~a.remote.exists
  \/ /\ packet.method = "playerTeleport"
     /\ a.player.exists /\ ~a.player.inited

\* this[method]?.(data), with the record of the dispatch
dispatch(a, packet, x) ==
  LET a1 == CASE packet.method = "entityModified" ->
                   onEntityModified(a, packet.data, x)
              [] packet.method = "entityEvent" -> onEntityEvent(a, packet.data)
              [] packet.method = "snapshot" -> onSnapshot(a, packet.data, x)
              [] packet.method = "playerTeleport" -> onPlayerTeleport(a, packet.data)
              [] packet.method = "entityAdded" -> onEntityAdded(a, packet.data)
              [] packet.method = "entityRemoved" -> onEntityRemoved(a, packet.data)
  IN  [a1 EXCEPT !.dispatched =
         Append(@, [method |-> packet.method, data |-> packet.data,
                    threw |-> handlerThrows(a, packet)])]

\* flush without the try / catch around the dispatch
flush_uncaught(a, x) ==
  IF a.queue = <<>> THEN a
  ELSE LET packet == Head(a.queue)
           a1 == [a EXCEPT !.queue = Tail(@)]
       IN  IF handlerThrows(a1, packet) THEN dispatch(a1, packet, x)
           ELSE flush_uncaught(dispatch(a1, packet, x), x)

\* ClientNetwork.flush; an exception of a handler is caught and logged
flush(a, x) ==
  IF a.queue = <<>> THEN a
  ELSE LET packet == Head(a.queue)
           a1 == [a EXCEPT !.queue = Tail(@)]
       IN  flush(dispatch(a1, packet, x), x)

\* ------------------------------------------------------------ ClientEditor
\* maxSize of onDrop, in bytes
MaxBytes == MAX_UPLOAD_SIZE * 1024 * 1024

\* hasRole(roles, 'admin', 'builder')
canDrop(roles) == roles \cap {"admin", "builder"} # {}

\* onDrop that also turns a file of exactly the limit away
onDrop_sizeInclusive(a, roles, file) ==
  IF ~canDrop(roles) THEN a
  ELSE IF file.ext = "none" THEN a
  ELSE IF file.size >= MaxBytes THEN chatAdd(a, FALSE)
  ELSE IF file.ext = "glb" THEN [a EXCEPT !.hashing = TRUE]
  ELSE a

\* onDrop without the role check
onDrop_anyRole(a, roles, file) ==
  IF file.ext = "none" THEN a
  ELSE IF file.size > MaxBytes THEN chatAdd(a, FALSE)
  ELSE IF file.ext = "glb" THEN [a EXCEPT !.hashing = TRUE]
  ELSE a

\* ClientEditor.onDrop; addModel runs up to its await of hashFile
onDrop(a, roles, file) ==
  IF ~canDrop(roles) THEN a
  ELSE IF file.ext = "none" THEN a
  ELSE IF file.size > MaxBytes THEN chatAdd(a, FALSE)
  ELSE IF file.ext = "glb" THEN [a EXCEPT !.hashing = TRUE]
  ELSE a

\* the entity data addModel spawns the app with
DroppedBy(u) ==
  [blueprint |-> "bx", uploader |-> u, mover |-> u, transformMode |-> "null",
   position |-> 0, quaternion |-> 0, scale |-> NoScale, state |-> 0]

\* addModel that spawns the app before it registers the blueprint
addModel_entityFirst(a, x) ==
  LET a1 == [a EXCEPT !.hashing = FALSE, !.cache = @ \cup {"model"}]
      a2 == addEntity(a1, DroppedBy(a.id), TRUE, x)
      a3 == addBlueprint(a2, "bx", TRUE)
  IN  [a3 EXCEPT !.upload = "pending"]

\* ClientEditor.addModel, from the hash to the await of upload
addModel(a, x) ==
  LET a1 == [a EXCEPT !.hashing = FALSE, !.cache = @ \cup {"model"}]
      a2 == addBlueprint(a1, "bx", TRUE)
      a3 == addEntity(a2, DroppedBy(a.id), TRUE, x)
  IN  [a3 EXCEPT !.upload = "pending"]

\* App.onUploaded
onUploaded(a) ==
  send([a EXCEPT !.data.uploader = Null], "entityModified", [uploader |-> Null])

\* App.fetch up to its await: the fetch is given the signal of the current
\* abort controller; with no controller, reading its signal throws inside the
\* try and undefined is returned
fetch(a) ==
  IF ~a.abortController
  THEN [a EXCEPT !.yielded = [ctl |-> 0, aborted |-> FALSE, result |-> "undefined"]]
  ELSE [a EXCEPT !.fetches = @ \cup {[ctl |-> a.controller, aborted |-> FALSE]}]

\* App.fetch from its await on: the response, or undefined when the fetch was
\* aborted or failed
fetchSettled(a, f, outcome) ==
  [a EXCEPT !.fetches = @ \ {f},
            !.yielded = [ctl |-> f.ctl, aborted |-> f.aborted,
                         result |-> IF f.aborted \/ outcome = "error"
                                    THEN "undefined" ELSE "response"]]

\* the App as its constructor finds it
NewApp(c, data) ==
  [id |-> c, cache |-> {}, queue |-> <<>>,
   data |-> data, n |-> 0, building |-> FALSE, mode |-> "none", blueprint |-> "none",
   root |-> NoRoot, script |-> FALSE, listeners |-> FALSE, hotEvents |-> 0,
   hot |-> FALSE, control |-> FALSE, abortController |-> FALSE, networkPos |-> FALSE,
   eventQueue |-> <<>>, pending |-> {},
   fired |-> <<>>, arrived |-> 0, log |-> <<>>, built |-> NoBuild, threw |-> 0,
   owed |-> 0, escaped |-> FALSE, aborted |-> FALSE, typeErrors |-> FALSE,
   registry |-> SnapshotBlueprints, exists |-> TRUE, chat |-> 0, hashing |-> FALSE,
   upload |-> "none", sent |-> <<>>, dispatched |-> <<>>, click |-> NoClick,
   placed |-> 0, token |-> 1, drop |-> NoDrop, player |-> NoPlayer,
   remote |-> NoRemote, dead |-> FALSE, removed |-> 0, destroys |-> <<>>,
   worldNodes |-> FALSE, worldActive |-> FALSE, worldListeners |-> FALSE,
   worldHeard |-> FALSE, bound |-> 0, controller |-> 0, fetches |-> {},
   unbuilt |-> NoUnbuild, yielded |-> NoYield, emitted |-> NoEmit,
   scaled |-> FALSE, callbacks |-> {}, listenerNames |-> {}, worldEvents |-> <<>>,
   hyp |-> NoHyp, pointerState |-> NoPointerState]

\* no entity data yet
NoData ==
  [blueprint |-> "none", uploader |-> Null, mover |-> Null, transformMode |-> "null",
   position |-> 0, quaternion |-> 0, scale |-> NoScale, state |-> 0]

\* the world of a client that connected and was not sent the snapshot yet
NewWorld(c) ==
  [NewApp(c, NoData) EXCEPT !.id = Null, !.registry = {}, !.exists = FALSE,
                            !.token = 0]

\* entity data as an entityAdded packet or the snapshot carries it
EntityData(blueprints, uploaders) ==
  [blueprint : blueprints, uploader : uploaders, mover : {Null},
   transformMode : {"null"}, position : {0}, quaternion : {0}, scale : {NoScale},
   state : {0}]

\* every client adds the app from the same entity data; the constructor calls build
Added(D) ==
  \E d \in D :
    app = [c \in Clients |-> build(NewApp(c, d), FALSE, FALSE, "ok")]

Init == Added(EntityData({"b0", "b1"}, {Null}))

\* ---------------------------------------------------------------- actions
Pending(c, pc) == {ctx \in app[c].pending : ctx.pc = pc}

\* what a script executed in this step may do, among the outcomes X (the build
\* that can get to exec is the one of data.blueprint); it no longer throws once
\* n is at its cap
Outcomes(a, X) ==
  IF /\ a.n < MaxN
     /\ a.data.blueprint \in a.registry
     /\ Blueprints[a.data.blueprint].script
  THEN X ELSE {"ok"}

\* whether a hot listener may throw in this step: one that is registered, or
\* one that the build of a click registers
Throws(a, X) ==
  IF a.n < MaxN /\ X # {"ok"} /\ (a.listeners \/ a.data.mover = a.id)
  THEN 0..MaxListeners ELSE {0}

\* whether the periodic transform update is due in this step, and where the
\* pointer is; both matter to the mover's client only
Due(a) == IF a.data.mover = a.id /\ a.control THEN {FALSE, TRUE} ELSE {FALSE}
Pointer(a) == IF a.data.mover = a.id /\ a.control THEN {0, 1} ELSE {0}
\* ShiftLeft is read in SCALING only where it picks uniform or per-axis scaling
ShiftLeft(a) ==
  IF a.data.mover = a.id /\ a.control /\ a.mode = Modes.SCALING THEN {FALSE, TRUE}
  ELSE {FALSE}

\* whether MouseLeft may be pressed in this step: the click starts a build, and
\* a script that throws in exec and in update two more
Pressed(a, X) ==
  IF a.data.mover = a.id /\ a.n + (IF X = {"ok"} THEN 1 ELSE 3) <= MaxN
  THEN {FALSE, TRUE} ELSE {FALSE}

\* loader.load('script', ...) resolved
ScriptLoaded(c, X) ==
  \E ctx \in Pending(c, "script"), x \in Outcomes(app[c], X) :
    app' = [app EXCEPT ![c] =
              buildRoot([begin(@) EXCEPT !.pending = @ \ {ctx}, !.cache = @ \cup {"script"}],
                        [ctx EXCEPT !.script = TRUE], x)]

\* loader.load('script', ...) rejected (a load that resolved stays resolved)
ScriptFailed(c, X) ==
  \E ctx \in Pending(c, "script"), x \in Outcomes(app[c], X) :
    /\ "script" \notin app[c].cache
    /\ app' = [app EXCEPT ![c] =
              buildRoot([begin(@) EXCEPT !.pending = @ \ {ctx}],
                        [ctx EXCEPT !.crashed = TRUE], x)]

\* loader.load(type, blueprint.model) resolved
ModelLoaded(c, X) ==
  \E ctx \in Pending(c, "model"), x \in Outcomes(app[c], X) :
    app' = [app EXCEPT ![c] =
              buildCrashBlock([begin(@) EXCEPT !.pending = @ \ {ctx}, !.cache = @ \cup {"model"}],
                              [ctx EXCEPT !.kind = "model"], x)]

\* loader.load(type, blueprint.model) rejected (a load that resolved stays resolved)
ModelFailed(c, X) ==
  \E ctx \in Pending(c, "model"), x \in Outcomes(app[c], X) :
    /\ "model" \notin app[c].cache
    /\ app' = [app EXCEPT ![c] =
              buildCrashBlock([begin(@) EXCEPT !.pending = @ \ {ctx}],
                              [ctx EXCEPT !.modelFailed = TRUE], x)]

\* loader.load('model', 'asset://crash-block.glb') resolved
CrashBlockLoaded(c, X) ==
  \E ctx \in Pending(c, "crash"), x \in Outcomes(app[c], X) :
    app' = [app EXCEPT ![c] =
              buildSetup([begin(@) EXCEPT !.pending = @ \ {ctx}, !.cache = @ \cup {"crash"}],
                         [ctx EXCEPT !.kind = "crash"], x)]

Modified(d) == [method |-> "entityModified", data |-> d]
Event(v) == [method |-> "entityEvent", data |-> [version |-> v]]

InQueue(a, method) ==
  Cardinality({i \in 1..Len(a.queue) : a.queue[i].method = method})

\* whether modify starts a build for the data
Rebuilds(d) ==
  has(d, "blueprint") \/ has(d, "uploader") \/ has(d, "mover")
    \/ has(d, "transformMode") \/ has(d, "state")

\* the builds the queued packets may start: two for an entityModified that
\* rebuilds (build, then crash)
QueuedBuilds(q) ==
  2 * Cardinality({i \in 1..Len(q) : q[i].method = "entityModified" /\ Rebuilds(q[i].data)})

Receivable(a, packet) ==
  /\ Len(a.queue) < MaxQueue
  /\ a.n + QueuedBuilds(Append(a.queue, packet)) <= MaxN
  /\ packet.method = "entityEvent" =>
       a.arrived + InQueue(a, "entityEvent") < MaxEvents

\* a packet arrives on the socket of client c
OnPacket(c, packets) ==
  \E packet \in packets :
    /\ Receivable(app[c], packet)
    /\ app' = [app EXCEPT ![c] = onPacket(begin(@), packet.method, packet.data)]

\* the server sends the same packet to every client
Broadcast(packets) ==
  \E packet \in packets :
    /\ \A c \in Clients : Receivable(app[c], packet)
    /\ app' = [c \in Clients |-> onPacket(begin(app[c]), packet.method, packet.data)]

\* ClientNetwork.preFixedUpdate
PreFixedUpdate(c, X) ==
  /\ app[c].queue # <<>>
  /\ app[c].n + QueuedBuilds(app[c].queue) <= MaxN
  /\ \E x \in X : app' = [app EXCEPT ![c] = flush(begin(@), x)]

\* the tick phases reach the entities of the hot set
FixedUpdate(c, X) ==
  /\ app[c].hot
  /\ \E throws \in Throws(app[c], X) :
       app' = [app EXCEPT ![c] = fixedUpdate(begin(@), throws, "ok")]

Update(c, X) ==
  /\ app[c].hot
  /\ \E throws \in Throws(app[c], X), pressed \in Pressed(app[c], X),
        due \in Due(app[c]), shift \in ShiftLeft(app[c]), p \in Pointer(app[c]),
        x \in Outcomes(app[c], X) :
       app' = [app EXCEPT ![c] = update(begin(@), throws, pressed, due, shift, p, x)]

LateUpdate(c, X) ==
  /\ app[c].hot
  /\ \E throws \in Throws(app[c], X) :
       app' = [app EXCEPT ![c] = lateUpdate(begin(@), throws, "ok")]

\* the transform wheel of the editor
Move(c) ==
  /\ app[c].n < MaxN /\ app[c].exists
  /\ app' = [app EXCEPT ![c] = move(begin(@), "ok")]
Rotate(c) ==
  /\ app[c].n < MaxN /\ app[c].exists
  /\ app' = [app EXCEPT ![c] = rotate(begin(@), "ok")]
Scale(c) ==
  /\ app[c].n < MaxN /\ app[c].exists
  /\ app' = [app EXCEPT ![c] = scale(begin(@), "ok")]

\* the snapshot the server sends to client c when it joins
SnapshotPackets(c) ==
  {[method |-> "snapshot",
    data |-> [id |-> c, chat |-> k, blueprints |-> SnapshotBlueprints,
              entities |-> e, authToken |-> 1]] :
     k \in {0, 1},
     e \in {<<>>} \cup {<<d>> : d \in EntityData({"b0", "b1"}, {Null})}}

\* the snapshot arrives on the socket of a client that just connected
Join(c) ==
  /\ app[c].id = Null
  /\ app[c].queue = <<>>
  /\ OnPacket(c, SnapshotPackets(c))

\* the files a drop may carry (none when the drag holds no file) and the roles
\* the local player may have
Files == [size : {1, MaxBytes, MaxBytes + 1}, ext : {"glb", "png"}] \cup {NoDrop.file}
RoleSets == SUBSET {"admin", "builder"}

\* a drop on the window; one app is followed, so a drop that starts addModel
\* happens while there is none
Drop(c) ==
  /\ app[c].id # Null
  /\ \E roles \in RoleSets, file \in Files :
       LET r == onDrop(begin(app[c]), roles, file)
       IN  /\ r.hashing => ~app[c].exists /\ ~app[c].hashing
           /\ r.chat <= MaxChat
           /\ app' = [app EXCEPT ![c] =
                        [r EXCEPT !.drop = [roles |-> roles, file |-> file,
                                            dropped |-> TRUE]]]

\* hashFile resolved: addModel goes on to its await of upload
Hashed(c) ==
  /\ app[c].hashing
  /\ app' = [app EXCEPT ![c] = addModel(begin(@), "ok")]

\* network.upload resolved: addModel calls app.onUploaded
Uploaded(c) ==
  /\ app[c].upload = "pending"
  /\ app' = [app EXCEPT ![c] = onUploaded([begin(@) EXCEPT !.upload = "done"])]

\* network.upload rejected: addModel ends there
UploadFailed(c) ==
  /\ app[c].upload = "pending"
  /\ app' = [app EXCEPT ![c] = [begin(@) EXCEPT !.upload = "failed"]]

\* entityAdded for the player of another client, and the packets of its pose
\* stream: a move, a teleport, an emote
RemoteAdded == [method |-> "entityAdded",
                data |-> [id |-> RemoteId, type |-> "player", position |-> 0]]
RemoteModified ==
  {Modified([id |-> RemoteId, p |-> 1, q |-> 1]),
   Modified([id |-> RemoteId, p |-> 2, q |-> 2, t |-> TRUE]),
   Modified([id |-> RemoteId, e |-> "walk"])}
Removed(id) == [method |-> "entityRemoved", data |-> [id |-> id]]

\* the teleports the queued packets carry
QueuedTeleports(q) ==
  Cardinality({i \in 1..Len(q) : q[i].method = "entityModified" /\ has(q[i].data, "t")})

\* another client joined: its player is added once (a player that left does
\* not come back under the same id)
OnRemoteAdded(c) ==
  /\ ~app[c].remote.exists /\ ~app[c].remote.dead
  /\ \A i \in DOMAIN app[c].queue : app[c].queue[i].method # "entityAdded"
  /\ OnPacket(c, {RemoteAdded})

\* the pose stream of the other client's player
OnRemoteModified(c) ==
  \E packet \in RemoteModified :
    /\ app[c].remote.teleport + QueuedTeleports(Append(app[c].queue, packet)) <= MaxTeleport
    /\ OnPacket(c, {packet})

\* the server removes an entity
OnRemoved(c, ids) == OnPacket(c, {Removed(id) : id \in ids})

\* Destroy in the context menu of the editor; the menu holds the entity it was
\* opened on
Destroy(c) ==
  /\ app[c].n > 0
  /\ app' = [app EXCEPT ![c] =
               destroy(destroyCalled(begin(@), AppId, TRUE, @.dead), TRUE)]

\* code of the script calls fetch; it may run whenever the script was executed
\* before (in exec, in a listener, in a callback of its own)
Fetch(c) ==
  /\ app[c].script
  /\ app' = [app EXCEPT ![c] = fetch(begin(@))]

\* a fetch of the script settles: it resolves, fails, or rejects for the abort
FetchSettled(c) ==
  \E f \in app[c].fetches, outcome \in {"response", "error"} :
    app' = [app EXCEPT ![c] = fetchSettled(begin(@), f, outcome)]

\* the snapshot of a world without apps; its blueprints may ask for preload
PlayerSnapshots(c) ==
  {[method |-> "snapshot",
    data |-> [id |-> c, chat |-> 0, blueprints |-> SnapshotBlueprints,
              entities |-> <<>>, authToken |-> 1,
              player |-> [position |-> 0], preload |-> preload]] :
     preload \in BOOLEAN}

JoinPlayer(c) ==
  /\ app[c].id = Null
  /\ app[c].queue = <<>>
  /\ OnPacket(c, PlayerSnapshots(c))

\* playerTeleport packets, with and without rotationY
TeleportPackets ==
  {[method |-> "playerTeleport", data |-> d] :
     d \in [position : Positions \ {0}] \cup [position : {1}, rotationY : {1}]}

\* the server teleports the player; the packet comes after the snapshot
OnPlayerTeleport(c) ==
  /\ app[c].id # Null \/ app[c].queue # <<>>
  /\ OnPacket(c, TeleportPackets)

\* loader.preloader resolved: PlayerLocal.init goes on
Preloaded(c) ==
  /\ app[c].player.exists /\ ~app[c].player.inited
  /\ app' = [app EXCEPT ![c] = initPlayer(begin(@))]

\* the fixed timesteps, in milliseconds
Deltas == {50, 60}
\* what the ground sweep may find: nothing, or ground at an angle in degrees
Sweeps == {[hit |-> FALSE, angle |-> 0]} \cup [hit : {TRUE}, angle : {MaxSlope, MaxSlope + 1}]
\* the platform under a grounded player: none, or one that carries it somewhere
Platforms(p) ==
  {[on |-> FALSE, to |-> 0]} \cup (IF p.grounded THEN [on : {TRUE}, to : {2}] ELSE {})

\* the fixed tick reaches the player
PlayerFixedUpdate(c) ==
  /\ app[c].player.hot
  /\ \E delta \in Deltas, sweep \in Sweeps, platform \in Platforms(app[c].player),
        vy \in {-1, 0}, space \in BOOLEAN :
       /\ app[c].player.fallTimer + delta <= MaxFall
       /\ app' = [app EXCEPT ![c] =
                    playerFixedUpdate(begin(@), delta, sweep.hit, sweep.angle,
                                      platform, vy, space)]

\* the frame times of the variable-rate update, in milliseconds
FrameDeltas == {50, 75}

\* the frame reaches the player
PlayerUpdate(c) ==
  /\ app[c].player.hot
  /\ \E delta \in FrameDeltas, moving \in BOOLEAN, running \in BOOLEAN :
       /\ app[c].player.lastSendAt + delta <= MaxSend
       /\ app' = [app EXCEPT ![c] = playerUpdate(begin(@), delta, moving, running)]

\* the avatars a user picks; "none" stands for a user without one
UserAvatars == {"none", "a.vrm", "b.vrm"}

\* entityModified with user reaches the player
PlayerModified(c) ==
  /\ app[c].player.inited
  /\ Len(app[c].player.loads) < MaxLoads
  /\ \E user \in UserAvatars :
       app' = [app EXCEPT ![c] = playerModify(begin(@), user)]

\* one of the avatar loads in flight resolves, in any order
AvatarLoaded(c) ==
  /\ \E i \in DOMAIN app[c].player.loads :
       app' = [app EXCEPT ![c] = avatarLoaded(begin(@), i)]

\* the nodes the pointer may hit, 0 for none, and the nodes whose handlers
\* may stop the propagation
Hits == 0..Len(Scene)
Stoppers == SUBSET {2, 3}

\* a frame with the pointer over hit
PointerUpdate(c) ==
  \E hit \in Hits, pressed \in BOOLEAN, released \in BOOLEAN, stops \in Stoppers :
    app' = [app EXCEPT ![c] = hover(@, hit, pressed, released, stops)]

\* the blueprint of client c is exported
ExportApp(c) ==
  /\ ~app[c].hyp.exported
  /\ app' = [app EXCEPT ![c].hyp.exported = TRUE,
                        ![c].hyp.file = exportApp(app[c].hyp.blueprint, app[c].hyp.files)]

\* the exported file is imported
ImportApp(c) ==
  /\ app[c].hyp.exported /\ ~app[c].hyp.imported.ran
  /\ app' = [app EXCEPT ![c].hyp.imported = importApp(app[c].hyp.file)]

\* the names and the callbacks a script calls app.on and app.off with
ListenedNames == {"update", "lateUpdate", "ping"}
Callbacks == 1..MaxListeners

\* the script of an ACTIVE app calls app.on or app.off
ScriptOn(c) ==
  /\ app[c].script /\ app[c].mode = Modes.ACTIVE /\ app[c].hotEvents < MaxHot
  /\ \E name \in ListenedNames, cb \in Callbacks :
       app' = [app EXCEPT ![c] = appOn(begin(@), name, cb)]
ScriptOff(c) ==
  /\ app[c].script /\ app[c].mode = Modes.ACTIVE /\ app[c].hotEvents > 0 - MaxHot
  /\ \E name \in ListenedNames, cb \in Callbacks :
       app' = [app EXCEPT ![c] = appOff(begin(@), name, cb)]

\* the names a script sends and emits: the lifecycle events and one of its own
EmittedNames == {"fixedUpdate", "update", "lateUpdate", "enter", "leave", "chat", "ping"}

\* the script of an ACTIVE app calls app.send, app.emit or world.emit
ScriptEmits(c) ==
  /\ app[c].script /\ app[c].mode = Modes.ACTIVE
  /\ \E name \in EmittedNames :
       \E b \in {appSend(begin(app[c]), name), appEmit(begin(app[c]), name),
                  worldEmit(begin(app[c]), name)} :
         app' = [app EXCEPT ![c] = b]

\* ---------------------------------------------------------- specifications
\* Build lifecycle of one client: blueprint changes, the end of an upload,
\* loads that resolve or reject, scripts that throw in exec or in a tick phase.
LifecyclePackets ==
  {Modified([blueprint |-> b]) : b \in {"b0", "b1", "bx"}}

Next ==
  \E c \in {1} :
    \/ ScriptLoaded(c, ExecOutcomes)
    \/ ScriptFailed(c, ExecOutcomes)
    \/ ModelLoaded(c, ExecOutcomes)
    \/ ModelFailed(c, ExecOutcomes)
    \/ CrashBlockLoaded(c, ExecOutcomes)
    \/ OnPacket(c, LifecyclePackets)
    \/ PreFixedUpdate(c, ExecOutcomes)
    \/ FixedUpdate(c, ExecOutcomes)
    \/ Update(c, ExecOutcomes)
    \/ LateUpdate(c, ExecOutcomes)

Spec == Init /\ [][Next]_vars

\* Entity events of one client: events of every version arrive while blueprint
\* changes rebuild the app; loads resolve and scripts do not throw.
EventPackets ==
  {Event(v) : v \in Versions} \cup {Modified([blueprint |-> b]) : b \in {"b1", "b2"}}

InitEvents == Added(EntityData({"b0"}, {Null}))

NextEvents ==
  \E c \in {1} :
    \/ ScriptLoaded(c, {"ok"})
    \/ ModelLoaded(c, {"ok"})
    \/ OnPacket(c, EventPackets)
    \/ PreFixedUpdate(c, {"ok"})

SpecEvents == InitEvents /\ [][NextEvents]_vars

\* Two clients that are sent the same packets, each with its own loads.
PeerPackets ==
  {Modified([blueprint |-> "b1"]), Modified([position |-> 1, quaternion |-> 1]),
   Modified([state |-> 1])}

InitPeers == Added(EntityData({"b0"}, {Null}))

NextPeers ==
  \/ Broadcast(PeerPackets)
  \/ \E c \in Clients :
       \/ ScriptLoaded(c, {"ok"})
       \/ ModelLoaded(c, {"ok"})
       \/ PreFixedUpdate(c, {"ok"})

SpecPeers == InitPeers /\ [][NextPeers]_vars

\* Transform authoring of one client: the editor's move, rotate and scale, the
\* placing click, and another client's mover packets.
TransformPackets ==
  {Modified([mover |-> 2, transformMode |-> "rotate"]),
   Modified([mover |-> Null, position |-> 1, quaternion |-> 1, scale |-> NoScale,
             transformMode |-> "null", state |-> 0]),
   Modified([uploader |-> Null])}

\* the app may be one that client 2 dropped and is still uploading (its
\* blueprint came with blueprintAdded before it)
InitTransform ==
  Added(EntityData({"b1"}, {Null})
          \cup {[DroppedBy(2) EXCEPT !.blueprint = "b0"]})

NextTransform ==
  \E c \in {1} :
    \/ ScriptLoaded(c, {"ok"})
    \/ ModelLoaded(c, {"ok"})
    \/ OnPacket(c, TransformPackets)
    \/ PreFixedUpdate(c, {"ok"})
    \/ Update(c, {"ok"})
    \/ Move(c)
    \/ Rotate(c)
    \/ Scale(c)

SpecTransform == InitTransform /\ [][NextTransform]_vars

\* The packet queue of one client: packets of several kinds pile up between
\* two flushes, some of them before the app's first build has finished.
NetworkPackets ==
  {Modified([position |-> 1, quaternion |-> 1]), Modified([state |-> 1]),
   Modified([blueprint |-> "b1"]), Event(0)}

NextNetwork ==
  \E c \in {1} :
    \/ ScriptLoaded(c, {"ok"})
    \/ ModelLoaded(c, {"ok"})
    \/ OnPacket(c, NetworkPackets)
    \/ PreFixedUpdate(c, {"ok"})

SpecNetwork == InitPeers /\ [][NextNetwork]_vars

\* A client joins and its builder drops files: the snapshot, drops that are
\* turned away, and the model that is hashed, spawned, uploaded and placed.
InitEditor == app = [c \in Clients |-> NewWorld(c)]

NextEditor ==
  \E c \in {1} :
    \/ Join(c)
    \/ PreFixedUpdate(c, {"ok"})
    \/ ScriptLoaded(c, {"ok"})
    \/ ModelLoaded(c, {"ok"})
    \/ Drop(c)
    \/ Hashed(c)
    \/ Uploaded(c)
    \/ UploadFailed(c)
    \/ Update(c, {"ok"})

SpecEditor == InitEditor /\ [][NextEditor]_vars

\* The player of another client, as this client is told of it, and the removal
\* of entities by the server and by the editor.
NextRemote ==
  \E c \in {1} :
    \/ OnRemoteAdded(c)
    \/ OnRemoteModified(c)
    \/ OnRemoved(c, {AppId, RemoteId})
    \/ PreFixedUpdate(c, {"ok"})
    \/ ModelLoaded(c, {"ok"})
    \/ Destroy(c)

SpecRemote == InitPeers /\ [][NextRemote]_vars

\* A scripted app of one client: rebuilds by blueprint changes and by the
\* editor, the fetches of its script, and its destruction.
ScriptPackets == {Modified([blueprint |-> b]) : b \in {"b1", "b2"}}

InitScript == Added(EntityData({"b1"}, {Null}))

NextScript ==
  \E c \in {1} :
    \/ ScriptLoaded(c, {"ok"})
    \/ ModelLoaded(c, {"ok"})
    \/ OnPacket(c, ScriptPackets)
    \/ PreFixedUpdate(c, {"ok"})
    \/ Move(c)
    \/ Fetch(c)
    \/ FetchSettled(c)
    \/ Destroy(c)

SpecScript == InitScript /\ [][NextScript]_vars

\* Scaling of one client: the editor's scale, the drags of the pointer with
\* and without ShiftLeft, and the placing click. The entity data the server
\* sent has no scale, or a scale that no check was applied to (App.modify and
\* the constructor take data.scale as it comes).
SentScales == {NoScale, [x |-> UnitScale, y |-> UnitScale, z |-> 2 * MaxScale]}

InitScale ==
  Added({[d EXCEPT !.scale = s] : d \in EntityData({"b0", "b1"}, {Null}),
                                  s \in SentScales})

NextScale ==
  \E c \in {1} :
    \/ ScriptLoaded(c, {"ok"})
    \/ ModelLoaded(c, {"ok"})
    \/ Update(c, {"ok"})
    \/ Move(c)
    \/ Scale(c)

SpecScale == InitScale /\ [][NextScale]_vars

\* The local player of one client: the snapshot creates it, the server
\* teleports it, the fixed tick runs its ground, jump and fall logic.
NextPlayer ==
  \E c \in {1} :
    \/ JoinPlayer(c)
    \/ OnPlayerTeleport(c)
    \/ PreFixedUpdate(c, {"ok"})
    \/ Preloaded(c)
    \/ PlayerFixedUpdate(c)

SpecPlayer == InitEditor /\ [][NextPlayer]_vars

\* a client picks Move, Rotate or Scale in the editor; the server relays the
\* entityModified it sends to the other clients, where it waits for the flush
relayed(c, b) ==
  /\ \A d \in Clients \ {c} : Receivable(app[d], [method |-> b.sent[1].name,
                                                    data |-> b.sent[1].data])
  /\ app' = [d \in Clients |->
               IF d = c THEN b
               ELSE onPacket(begin(app[d]), b.sent[1].name, b.sent[1].data)]

TransformRelayed(c) ==
  /\ app[c].n < MaxN /\ app[c].exists
  /\ \E b \in {move(begin(app[c]), "ok"), rotate(begin(app[c]), "ok"),
                scale(begin(app[c]), "ok")} :
       relayed(c, b)

\* Two editors at one app: each of them may take it up at any time.
NextMovers ==
  \E c \in Clients :
    \/ ModelLoaded(c, {"ok"})
    \/ PreFixedUpdate(c, {"ok"})
    \/ TransformRelayed(c)

SpecMovers == InitPeers /\ [][NextMovers]_vars

\* A dropped model whose app is destroyed in the editor, before or after its
\* upload has finished.
NextUpload ==
  \E c \in {1} :
    \/ Join(c)
    \/ PreFixedUpdate(c, {"ok"})
    \/ ModelLoaded(c, {"ok"})
    \/ Drop(c)
    \/ Hashed(c)
    \/ Uploaded(c)
    \/ Destroy(c)

SpecUpload == InitEditor /\ [][NextUpload]_vars

\* A script that puts listeners on its app and takes them off again.
NextListen ==
  \E c \in {1} :
    \/ ScriptLoaded(c, {"ok"})
    \/ ModelLoaded(c, {"ok"})
    \/ ScriptOn(c)
    \/ ScriptOff(c)
    \/ ScriptEmits(c)

SpecListen == InitScript /\ [][NextListen]_vars

\* The pose stream of the local player: frames of different lengths, and
\* teleports by the server in between.
NextPose ==
  \E c \in {1} :
    \/ JoinPlayer(c)
    \/ OnPlayerTeleport(c)
    \/ PreFixedUpdate(c, {"ok"})
    \/ Preloaded(c)
    \/ PlayerUpdate(c)

SpecPose == InitEditor /\ [][NextPose]_vars

\* The avatar of the player: changes of the user and avatar loads that
\* resolve in any order.
NextAvatar ==
  \E c \in {1} :
    \/ JoinPlayer(c)
    \/ PreFixedUpdate(c, {"ok"})
    \/ Preloaded(c)
    \/ PlayerUpdate(c)
    \/ PlayerModified(c)
    \/ AvatarLoaded(c)

SpecAvatar == InitEditor /\ [][NextAvatar]_vars

\* Export and import of blueprints: names with code units below and above
\* 256, a model or an avatar, a script, a file prop, files of 0 to 2 bytes.
NameChars == {97, 34, 290, 955}
Names == {<<>>} \cup {<<x>> : x \in NameChars} \cup {<<x, y>> : x, y \in NameChars}
ModelUrls == {<<>>, <<109, 46, 103, 108, 98>>, <<97, 46, 118, 114, 109>>}
ScriptUrls == {<<>>, <<115, 46, 106, 115>>}
PropUrls == {<<>>, <<112, 46, 112, 110, 103>>}
FileBytes == {<<>>, <<255>>, <<0, 34>>}
ExportedFiles ==
  [(ModelUrls \cup ScriptUrls \cup PropUrls) \ {<<>>} ->
     [bytes : FileBytes, type : {<<120>>}]]
ExportedBlueprints ==
  [name : Names, model : ModelUrls, script : ScriptUrls, locked : BOOLEAN,
   frozen : BOOLEAN, prop : [type : {<<105>>}, url : PropUrls]]

InitTools ==
  \E blueprint \in ExportedBlueprints, files \in ExportedFiles :
    /\ \A u \in DOMAIN files :
         u \notin {blueprint.model, blueprint.script, blueprint.prop.url}
           => files[u].bytes = <<>>
    /\ app = [c \in Clients |->
                [NewWorld(c) EXCEPT !.hyp.blueprint = blueprint, !.hyp.files = files]]

NextTools ==
  \E c \in {1} :
    \/ ExportApp(c)
    \/ ImportApp(c)

SpecTools == InitTools /\ [][NextTools]_vars

\* The pointer over the scene.
NextPointer ==
  \E c \in {1} :
    \/ PointerUpdate(c)

SpecPointer == InitEditor /\ [][NextPointer]_vars

\* ------------------------------------------------------------------ claims
Registered(a) == a.data.blueprint \in a.registry
Settled(a) == a.pending = {}

\* C1: a build that was superseded while it waited for a load never gets past
\* the generation check (it does not unbuild, set mode, blueprint or root,
\* activate or execute), and once every load has settled the one build that
\* stands is the latest: the active root and the blueprint are the ones of the
\* blueprint that data.blueprint (the most recent modify) names.
C1_Supersession ==
  \A c \in Clients :
    LET a == app[c]
    IN  /\ a.built.gen = a.built.nAt
        /\ (Settled(a) /\ Registered(a)) =>
             /\ ~a.building
             /\ a.built.gen = a.n
             /\ a.root.active
             /\ a.root.gen = a.n
             /\ a.root.bp = a.data.blueprint
             /\ a.blueprint = a.data.blueprint

\* a superseded build resumed and gave up, and the latest build stands
C1_Witness ==
  LET a == app[1]
  IN  /\ a.aborted /\ Settled(a) /\ a.n >= 2
      /\ a.root.active /\ a.root.kind = "model" /\ a.root.bp = a.data.blueprint

\* C2: two clients that handled the same packets in the same order hold the
\* same data (blueprint, position, quaternion, scale, state) for the app, once
\* their queues are empty and their loads settled.
C2_PeersConverge ==
  (\A c \in Clients : app[c].queue = <<>> /\ Settled(app[c])) =>
    \A c1, c2 \in Clients :
      /\ app[c1].data.blueprint = app[c2].data.blueprint
      /\ app[c1].data.position = app[c2].data.position
      /\ app[c1].data.quaternion = app[c2].data.quaternion
      /\ app[c1].data.scale = app[c2].data.scale
      /\ app[c1].data.state = app[c2].data.state

\* C3: an event that onEvent receives while building is true is appended to
\* eventQueue and no listener is invoked for it then, whatever its version:
\* if it is fired at all, the drain of a build fires it.
C3_QueuedWhileBuilding ==
  \A c \in Clients :
    LET a == app[c]
    IN  /\ \A i \in DOMAIN a.log : a.log[i].building => a.log[i].queued
        /\ \A i \in DOMAIN a.fired :
             a.log[a.fired[i].seq].building => a.fired[i].via = "drain"

\* an event of a version the app already has arrived during a build and is queued
C3_Witness ==
  \E i \in DOMAIN app[1].log :
    LET e == app[1].log[i]
    IN  e.building /\ e.queued /\ e.at >= 0 /\ e.version <= e.at

\* C4: events are delivered in arrival order: after a build has finished no
\* event of the blueprint's version is left in the queue, and no event is fired
\* before an event of the same version that arrived earlier.
C4_ArrivalOrder ==
  \A c \in Clients :
    LET a == app[c]
    IN  /\ ~a.building =>
             \A i \in DOMAIN a.eventQueue : a.eventQueue[i].version # AppVersion(a)
        /\ \A i \in DOMAIN a.fired, j \in DOMAIN a.eventQueue :
             a.eventQueue[j].version = a.fired[i].version =>
               a.fired[i].seq < a.eventQueue[j].seq
        /\ \A i, j \in DOMAIN a.fired :
             (i < j /\ a.fired[i].version = a.fired[j].version) =>
               a.fired[i].seq < a.fired[j].seq

\* C5: an event that arrived with a version above the app's blueprint version
\* is never fired at a lower version, stays queued meanwhile, and is fired when
\* a build finishes at a version that reaches it: once a build has finished,
\* no such event of a version the app has reached is still queued.
C5_FutureEventDelivered ==
  \A c \in Clients :
    LET a == app[c]
        future(seq) == a.log[seq].at >= 0 /\ a.log[seq].version > a.log[seq].at
    IN  /\ \A i \in DOMAIN a.fired : a.fired[i].version <= a.fired[i].at
        /\ \A seq \in DOMAIN a.log :
             future(seq) =>
               \/ \E i \in DOMAIN a.eventQueue : a.eventQueue[i].seq = seq
               \/ \E i \in DOMAIN a.fired : a.fired[i].seq = seq
        /\ ~a.building =>
             \A i \in DOMAIN a.eventQueue :
               future(a.eventQueue[i].seq) => a.eventQueue[i].version > AppVersion(a)

\* C6: an event of a version below the app's blueprint version is never
\* delivered: every event fired has version >= blueprint.version.
C6_StaleEventDropped ==
  \A c \in Clients :
    \A i \in DOMAIN app[c].fired : app[c].fired[i].version >= app[c].fired[i].at

\* C7: an exception of the script in exec or in a fixedUpdate, update or
\* lateUpdate listener is caught, does not leave build() or the tick phase, and
\* is answered by crash(): a build with crashed = true, which, when it sets up,
\* shows the crash block and does not execute the script.
C7_ScriptThrowCaught ==
  \A c \in Clients :
    LET a == app[c]
    IN  /\ ~a.escaped
        /\ a.owed = 0
        /\ \A ctx \in a.pending : ctx.viaCrash => ctx.crashed
        /\ a.built.viaCrash =>
             a.built.crashed /\ a.built.kind = "crash" /\ ~a.built.execd

\* the rebuild that crash() started has finished on the crash block
C7_Witness ==
  LET a == app[1]
  IN  /\ a.built.viaCrash /\ a.built.finished
      /\ a.root.active /\ a.root.kind = "crash" /\ ~a.listeners

\* C8: once the rebuild that follows a script exception has finished, the app
\* is in mode CRASHED, as long as no later build has been started.
C8_CrashedMode ==
  \A c \in Clients :
    LET a == app[c]
    IN  (a.built.viaCrash /\ a.built.finished /\ a.built.gen = a.n) =>
          a.mode = Modes.CRASHED

\* C9: a build of an app whose blueprint id is not in the registry finishes:
\* building is false again and the root is the crash block in mode CRASHED.
C9_MissingBlueprint ==
  \A c \in Clients :
    LET a == app[c]
    IN  (Settled(a) /\ ~Registered(a)) =>
          ~a.building /\ a.root.kind = "crash" /\ a.mode = Modes.CRASHED

\* C10: a build whose model fetch failed sets up the crash block as root and
\* does not execute the blueprint's script.
C10_ModelFetchFailed ==
  \A c \in Clients :
    app[c].built.modelFailed =>
      app[c].built.kind = "crash" /\ ~app[c].built.execd

\* C11: when a build has completed, mode is MOVING, ROTATING or SCALING (by
\* data.transformMode) exactly when data.mover is this client; otherwise it is
\* LOADING when data.uploader is set and is another client, otherwise ACTIVE.
C11_ModeBySelf ==
  \A c \in Clients :
    LET a == app[c]
        b == a.built
    IN  b.finished =>
          a.mode = IF b.mover = a.id
                   THEN IF b.transformMode = "rotate" THEN Modes.ROTATING
                        ELSE IF b.transformMode = "scale" THEN Modes.SCALING
                        ELSE Modes.MOVING
                   ELSE IF b.uploader # Null /\ b.uploader # a.id
                        THEN Modes.LOADING ELSE Modes.ACTIVE

\* C11 as the code has it: when a build has completed, mode is LOADING when
\* data.uploader is set and is another client; otherwise it is MOVING, ROTATING
\* or SCALING (by data.transformMode) exactly when data.mover is set, whichever
\* client the mover is; otherwise ACTIVE.
C11_ModeByAnyMover ==
  \A c \in Clients :
    LET a == app[c]
        b == a.built
    IN  b.finished =>
          a.mode = IF b.uploader # Null /\ b.uploader # a.id
                   THEN Modes.LOADING
                   ELSE IF b.mover # Null
                        THEN IF b.transformMode = "rotate" THEN Modes.ROTATING
                             ELSE IF b.transformMode = "scale" THEN Modes.SCALING
                             ELSE Modes.MOVING
                        ELSE Modes.ACTIVE

\* a build completed while another client is the mover and no upload is going on
C11_Witness ==
  LET a == app[1]
  IN  /\ a.built.finished /\ a.built.mover = 2 /\ a.built.uploader = Null
      /\ a.built.transformMode = "rotate" /\ a.mode = Modes.ROTATING

\* C12: in every state after a build of the app has completed (networkPos
\* exists from then on), the root is active exactly when mode is ACTIVE, MOVING,
\* ROTATING or SCALING; in LOADING and CRASHED it is not active.
C12_ActiveIffShown ==
  \A c \in Clients :
    LET a == app[c]
    IN  a.networkPos =>
          (a.root.active <=>
             a.mode \in {Modes.ACTIVE, Modes.MOVING, Modes.ROTATING, Modes.SCALING})

\* C12 as the code has it: in every state after a build of the app has
\* completed the root is active, in mode LOADING (where it is the placeholder
\* box) as in ACTIVE, MOVING, ROTATING and SCALING; only in CRASHED, which no
\* build sets, would it not be.
C12_ActiveInEveryMode ==
  \A c \in Clients :
    LET a == app[c]
    IN  a.networkPos =>
          (a.root.active <=>
             a.mode \in {Modes.ACTIVE, Modes.MOVING, Modes.ROTATING, Modes.SCALING,
                         Modes.LOADING})

\* this client took the app up while another client is still uploading it: the
\* build completed in LOADING with the placeholder active
C12_Witness ==
  LET a == app[1]
  IN  /\ a.built.finished /\ a.data.mover = 1 /\ a.data.uploader = 2
      /\ a.mode = Modes.LOADING /\ a.root.kind = "box" /\ a.root.active

\* C13: when the mover's client sees MouseLeft pressed in update, data.mover and
\* data.transformMode are null afterwards, data holds the root's position and
\* quaternion (and scale when SCALING), data.state is reset, exactly one
\* entityModified with mover: null was sent and it carries those values, and
\* the rebuild the click started, once it has completed, leaves mode ACTIVE.
C13_ClickCommits ==
  \A c \in Clients :
    LET a == app[c]
        commits == {i \in DOMAIN a.sent : has(a.sent[i].data, "mover")}
    IN  /\ a.click # NoClick =>
             /\ a.data.mover = Null /\ a.data.transformMode = "null"
             /\ a.data.position = a.click.position
             /\ a.data.quaternion = a.click.quaternion
             /\ a.click.mode = Modes.SCALING => a.data.scale = a.click.scale
             /\ a.data.state = 0
             /\ Cardinality(commits) = 1
             /\ \A i \in commits :
                  /\ a.sent[i].name = "entityModified"
                  /\ a.sent[i].data =
                       [mover |-> Null, position |-> a.click.position,
                        quaternion |-> a.click.quaternion, scale |-> a.data.scale,
                        transformMode |-> "null", state |-> 0]
        /\ (a.placed = a.n /\ a.built.gen = a.n /\ a.built.finished) =>
             a.mode = Modes.ACTIVE

\* the mover rotated the app away from where it was and clicked; the rebuild
\* has completed
C13_Witness ==
  LET a == app[1]
  IN  /\ a.click # NoClick /\ a.click.mode = Modes.ROTATING /\ a.click.quaternion = 1
      /\ a.placed = a.n /\ a.built.finished /\ a.mode = Modes.ACTIVE
      /\ Len(a.sent) = 2

\* C14: a flush (the only step that shortens the queue) dispatches every queued
\* packet once, in arrival order, also the packets behind one whose handler
\* throws, and leaves the queue empty.
C14_FlushInOrder ==
  [][\A c \in Clients :
       Len(app'[c].queue) < Len(app[c].queue) =>
         /\ app'[c].queue = <<>>
         /\ Len(app'[c].dispatched) = Len(app[c].queue)
         /\ \A i \in DOMAIN app[c].queue :
              /\ app'[c].dispatched[i].method = app[c].queue[i].method
              /\ app'[c].dispatched[i].data = app[c].queue[i].data]_vars

\* a flush dispatched a packet whose handler threw and then the one behind it
C14_Witness ==
  LET a == app[1]
  IN  /\ Len(a.dispatched) = 2 /\ a.queue = <<>>
      /\ a.dispatched[1].threw /\ a.dispatched[2].method = "entityModified"
      /\ a.data.state = 1

\* C15: receiving a packet only appends it to the queue and changes nothing
\* else, and a handler is dispatched only by a flush, for packets that were
\* queued before it; no other step, a tick phase included, dispatches one.
C15_HandlersOnlyInFlush ==
  [][\A c \in Clients :
       /\ Len(app'[c].queue) > Len(app[c].queue) =>
            /\ Len(app'[c].queue) = Len(app[c].queue) + 1
            /\ app'[c] = [begin(app[c]) EXCEPT !.queue = app'[c].queue]
       /\ (app'[c] # app[c] /\ app'[c].dispatched # <<>>) =>
            Len(app'[c].queue) < Len(app[c].queue)]_vars

\* a packet waits in the queue of a client whose script is listening to the ticks
C15_Witness ==
  LET a == app[1]
  IN  a.queue # <<>> /\ a.dispatched = <<>> /\ a.hot /\ a.listeners /\ ~a.building

\* C16: the flush that handled the snapshot sent no packet; the client has the
\* id, the chat, the blueprints and the auth token of the snapshot, and the app
\* of the snapshot found its blueprint registered when its first build started.
C16_SnapshotSilent ==
  \A c \in Clients :
    LET a == app[c]
    IN  \A i \in DOMAIN a.dispatched :
          a.dispatched[i].method = "snapshot" =>
            LET d == a.dispatched[i].data
            IN  /\ a.sent = <<>>
                /\ a.id = d.id /\ a.chat = d.chat
                /\ a.registry = d.blueprints /\ a.token = d.authToken
                /\ a.exists <=> d.entities # <<>>
                /\ a.exists => a.data = d.entities[1] /\ a.n = 1 /\ a.threw = 0

\* a snapshot with chat and an app was handled; the app's first build is waiting
\* for its script
C16_Witness ==
  LET a == app[1]
  IN  /\ a.dispatched # <<>> /\ a.dispatched[1].method = "snapshot"
      /\ a.id = 1 /\ a.chat = 1 /\ a.exists /\ a.data.blueprint = "b1"
      /\ a.token = 1 /\ a.pending # {}

\* C17: a drop, by a player who may drop, of a file larger than the limit adds
\* one chat message and changes nothing else (no blueprint, entity, loader
\* entry, upload or packet); a model file of exactly the limit is taken.
C17_OversizeDrop ==
  [][\A c \in Clients :
       LET d == app'[c].drop
       IN  (app'[c] # app[c] /\ d.dropped /\ canDrop(d.roles)) =>
             /\ d.file.size > MaxBytes =>
                  app'[c] = [begin(app[c]) EXCEPT !.drop = d, !.chat = @ + 1]
             /\ (d.file.size = MaxBytes /\ d.file.ext = "glb") =>
                  app'[c] = [begin(app[c]) EXCEPT !.drop = d, !.hashing = TRUE]]_vars

\* a builder's file of one byte over the limit was turned away with a message
C17_Witness ==
  LET a == app[1]
  IN  /\ a.drop.dropped /\ a.drop.roles = {"builder"}
      /\ a.drop.file.size = MaxBytes + 1 /\ a.drop.file.ext = "glb"
      /\ a.chat = 1 /\ ~a.hashing /\ ~a.exists /\ a.sent = <<>>

\* C18: a drop by a player who is neither admin nor builder changes nothing:
\* no blueprint, entity, loader entry, chat message, upload or packet.
C18_NoRoleNoDrop ==
  [][\A c \in Clients :
       LET d == app'[c].drop
       IN  (app'[c] # app[c] /\ d.dropped /\ ~canDrop(d.roles)) =>
             app'[c] = [begin(app[c]) EXCEPT !.drop = d]]_vars

\* a player without a role dropped a model file that a builder could have added
C18_Witness ==
  LET a == app[1]
  IN  /\ a.drop.dropped /\ a.drop.roles = {}
      /\ a.drop.file.ext = "glb" /\ a.drop.file.size = 1
      /\ a.chat = 0 /\ ~a.hashing /\ ~a.exists /\ a.registry = SnapshotBlueprints

\* C19: addModel sends blueprintAdded before entityAdded and the app's first
\* build finds the blueprint registered; the entity is added with mover and
\* uploader this client; data.uploader is cleared and entityModified with
\* uploader: null is sent only once upload() has resolved, never when it
\* rejected.
C19_DropThenUpload ==
  \A c \in Clients :
    LET a == app[c]
        dropped == a.exists /\ a.data.blueprint = "bx"
    IN  /\ dropped => "bx" \in a.registry /\ a.threw = 0
        /\ \A i \in DOMAIN a.sent :
             a.sent[i].name = "entityAdded" =>
               /\ a.sent[i].data.mover = a.id /\ a.sent[i].data.uploader = a.id
               /\ \E j \in 1..(i - 1) :
                    /\ a.sent[j].name = "blueprintAdded"
                    /\ a.sent[j].data.id = a.sent[i].data.blueprint
        /\ (dropped /\ a.upload \in {"pending", "failed"}) => a.data.uploader = a.id
        /\ (dropped /\ a.upload = "done") => a.data.uploader = Null
        /\ \A i \in DOMAIN a.sent :
             has(a.sent[i].data, "uploader") /\ a.sent[i].name = "entityModified" =>
               a.upload = "done"

\* the dropped model was uploaded: uploader is cleared and the packet was sent
C19_Witness ==
  LET a == app[1]
  IN  /\ a.exists /\ a.data.blueprint = "bx" /\ a.upload = "done"
      /\ a.data.uploader = Null /\ a.data.mover = a.id
      /\ a.sent = <<[name |-> "entityModified", data |-> [uploader |-> Null]]>>

C21_TeleportSnaps ==
  \A c \in Clients :
    LET a == app[c]
        teleports == {i \in DOMAIN a.dispatched : a.dispatched[i].method = "playerTeleport"}
        flagged == {j \in DOMAIN a.sent : has(a.sent[j].data, "t")}
    IN  (a.player.exists /\ teleports # {}) =>
          LET d == a.dispatched[CHOOSE i \in teleports : \A k \in teleports : k <= i].data
          IN  /\ a.player.capsule = d.position
              /\ a.player.base = d.position
              /\ Cardinality(flagged) = Cardinality(teleports)
              /\ \E j \in flagged :
                   /\ \A k \in flagged : k <= j
                   /\ a.sent[j].name = "entityModified"
                   /\ a.sent[j].data = [id |-> a.id, p |-> d.position,
                                        q |-> a.player.yaw, t |-> TRUE]

\* C29: at the end of every fixedUpdate of the local player, grounded implies
\* that jumping and falling are both false.
C29_GroundedClears ==
  \A c \in Clients :
    LET p == app[c].player
    IN  (p.step.ran /\ p.grounded) => ~p.jumping /\ ~p.falling

\* the player was falling and this fixedUpdate found ground under it
C29_Witness ==
  LET p == app[1].player
  IN  p.step.ran /\ p.step.falling /\ p.grounded /\ ~p.falling /\ p.fallTimer = 0

\* C30: falling turns true only in a fixedUpdate that leaves the player
\* ungrounded with negative vertical velocity and the fall timer above 0.1 s;
\* the timer is the sum of the deltas of the consecutive such steps, a step that
\* is grounded or has non-negative vertical velocity resets it to 0, and a step
\* that ends with the timer above 0.1 s leaves falling set and jumping cleared.
C30_FallDeadBand ==
  [][\A c \in Clients :
       LET p == app[c].player
           q == app'[c].player
       IN  /\ (q.falling /\ ~p.falling) =>
                /\ q.step.ran /\ ~q.grounded /\ q.step.vy < 0
                /\ q.fallTimer > FallTime
           /\ q.step.ran =>
                /\ q.fallTimer = IF ~q.grounded /\ q.step.vy < 0
                                 THEN p.fallTimer + q.step.delta ELSE 0
                /\ q.fallTimer > FallTime => q.falling /\ ~q.jumping]_vars

\* the player jumped, and after falling for exactly 0.1 s, not yet flagged as
\* falling, one more step set falling and cleared jumping
C30_Witness ==
  LET p == app[1].player
  IN  /\ p.step.ran /\ p.step.jumping /\ ~p.step.falling
      /\ p.fallTimer = FallTime + p.step.delta /\ p.falling /\ ~p.jumping

\* C22: the teleport counter of a remote player never decreases; a flush adds
\* to it one for each entityModified carrying t that reached the player, and
\* every push of p or q to the interpolators was given the counter as it stood
\* after the t of its own packet was counted: above the counter of every
\* earlier push for a teleport, unchanged for a packet without t.
C22_TeleportCounter ==
  [][\A c \in Clients :
       LET r == app[c].remote
           q == app'[c].remote
           d == app'[c].dispatched
           counted(n) == Cardinality({i \in 1..n : /\ d[i].method = "entityModified"
                                                   /\ has(d[i].data, "id")
                                                   /\ has(d[i].data, "t")
                                                   /\ ~d[i].threw})
       IN  /\ q.teleport >= r.teleport
           /\ q.teleport = r.teleport + counted(Len(d))
           /\ \A j \in DOMAIN q.pushes :
                /\ q.pushes[j].teleport = r.teleport + counted(q.pushes[j].at)
                /\ \A k \in 1..(j - 1) :
                     IF q.pushes[k].at < q.pushes[j].at /\ has(d[q.pushes[j].at].data, "t")
                     THEN q.pushes[k].teleport < q.pushes[j].teleport
                     ELSE q.pushes[k].teleport <= q.pushes[j].teleport]_vars

\* one flush handled a move and then a teleport of the remote player: the
\* teleport's pose was pushed with the counter it raised
C22_Witness ==
  LET a == app[1]
  IN  /\ a.remote.exists /\ Len(a.dispatched) = 2
      /\ ~has(a.dispatched[1].data, "t") /\ has(a.dispatched[2].data, "t")
      /\ Len(a.remote.pushes) = 4
      /\ a.remote.pushes[2].teleport + 1 = a.remote.pushes[3].teleport
      /\ a.remote.position = 2 /\ a.remote.teleport = MaxTeleport

\* C26: destroy is idempotent.  The call that finds an App or a PlayerRemote
\* alive takes it out of the store, and entityRemoved is sent for it exactly
\* when local is true; a call that finds it dead (or a removal of an id the store
\* no longer has) changes nothing.  So at most one entityRemoved is ever sent
\* and at most one 'leave' event is emitted for the entity.
C26_DestroyOnce ==
  [][\A c \in Clients :
       LET a == app[c]
           b == app'[c]
           calls == b.destroys
           sentFor(id) == {j \in DOMAIN b.sent : /\ b.sent[j].name = "entityRemoved"
                                                 /\ b.sent[j].data.id = id}
           first(id) == {i \in DOMAIN calls : calls[i].id = id /\ ~calls[i].dead}
       IN  /\ b.removed <= 1 /\ b.remote.left <= 1
           /\ \A id \in {AppId, RemoteId} :
                /\ Cardinality(first(id)) <= 1
                /\ first(id) # {} =>
                     /\ IF id = AppId THEN b.dead /\ ~b.exists
                        ELSE b.remote.dead /\ ~b.remote.exists
                /\ Cardinality(sentFor(id)) =
                     Cardinality({i \in first(id) : calls[i].local})
           /\ (/\ calls # <<>>
               /\ \A i \in DOMAIN calls : calls[i].dead
               /\ \A i \in DOMAIN b.dispatched : b.dispatched[i].method = "entityRemoved") =>
                b = [begin(a) EXCEPT !.destroys = calls, !.queue = b.queue,
                                     !.dispatched = b.dispatched]]_vars

\* the server had removed the app, and then Destroy was clicked in the menu that
\* was still open on it: nothing was sent
C26_Witness ==
  LET a == app[1]
  IN  /\ a.destroys = <<[id |-> AppId, local |-> TRUE, dead |-> TRUE]>>
      /\ a.dead /\ ~a.exists /\ a.sent = <<>> /\ a.removed = 0
      /\ a.remote.dead /\ a.remote.left = 1

\* C23: a fetch of the script in flight carries the signal of the abort
\* controller that was current when it started: it is either aborted or tied to
\* the controller the app has now.  An unbuild (rebuild or destroy) aborts the
\* controller and leaves no fetch unaborted, and a fetch that was aborted
\* yields undefined to the script.
C23_FetchAborted ==
  \A c \in Clients :
    LET a == app[c]
    IN  /\ \A f \in a.fetches :
             f.aborted \/ (a.abortController /\ f.ctl = a.controller)
        /\ a.unbuilt.ran => a.unbuilt.live = 0
        /\ a.yielded.aborted => a.yielded.result = "undefined"

\* a fetch that a rebuild had aborted settled and gave the script undefined,
\* while a fetch of the new build is still in flight
C23_Witness ==
  LET a == app[1]
  IN  /\ a.yielded.aborted /\ a.yielded.result = "undefined"
      /\ a.abortController /\ a.yielded.ctl < a.controller
      /\ \E f \in a.fetches : ~f.aborted /\ f.ctl = a.controller

\* C27: once destroy has been called on an App, no later step activates a root
\* for it, executes its script (which gives it listeners and an abort
\* controller), binds controls for it or puts it in the hot set, also not a
\* build that was waiting for a load when destroy was called.
C27_DeadStaysDown ==
  \A c \in Clients :
    LET a == app[c]
    IN  a.dead => /\ ~a.root.active /\ ~a.listeners /\ ~a.abortController
                  /\ ~a.control /\ ~a.hot

C24_ListenersIsolated ==
  \A c \in Clients :
    app[c].emitted.invoked = app[c].emitted.registered

\* C25: after every handleScale step (uniform with Shift held, per axis
\* otherwise) each of the three axes of the root's scale lies within [0.1, 10],
\* and the scale a click in SCALING writes to data.scale and broadcasts lies
\* within [0.1, 10] on every axis.
C25_ScaleClamped ==
  \A c \in Clients :
    LET a == app[c]
        within(s) == \A v \in {s.x, s.y, s.z} : MinScale <= v /\ v <= MaxScale
    IN  /\ (a.scaled /\ a.click = NoClick) => within(a.root.scale)
        /\ a.click.mode = Modes.SCALING =>
              /\ within(a.click.scale)
              /\ within(a.data.scale)
              /\ \A i \in DOMAIN a.sent :
                    has(a.sent[i].data, "scale") => within(a.sent[i].data.scale)

\* C31: at the end of every PlayerLocal.fixedUpdate step, slipping holds exactly
\* when the ground sweep of the step hit a surface at more than 60 degrees to
\* UP; slipping implies not grounded, and grounded implies groundAngle <= 60.
C31_SlippingIffSteep ==
  \A c \in Clients :
    LET p == app[c].player
    IN  /\ p.step.ran => (p.slipping <=> (p.step.sweepHit /\ p.step.angle > MaxSlope))
        /\ p.slipping => ~p.grounded
        /\ p.grounded => p.groundAngle <= MaxSlope

\* the sweep hit ground at exactly 60 degrees: the player stands on it
C31_Witness ==
  LET p == app[1].player
  IN  /\ p.step.ran /\ p.step.sweepHit /\ p.step.angle = MaxSlope
      /\ p.grounded /\ p.groundAngle = MaxSlope /\ ~p.slipping

\* C38: after every PlayerLocal.fixedUpdate step jumping and falling are not
\* both true; jumping becomes true only in a step that ends ungrounded and
\* found jumped set, and jumped is set only by a step that ends grounded.
C38_JumpThenFall ==
  [][\A c \in Clients :
       LET p == app[c].player
           q == app'[c].player
       IN  /\ ~(q.jumping /\ q.falling)
           /\ (q.jumping /\ ~p.jumping) =>
                /\ q.step.ran /\ ~q.grounded /\ p.jumped /\ ~q.jumped
           /\ (q.jumped /\ ~p.jumped) => q.step.ran /\ q.grounded]_vars

\* the player jumped, left the ground and, jumping, fell for longer than the
\* dead band: the step turned jumping into falling
C38_Witness ==
  LET p == app[1].player
  IN  /\ p.step.ran /\ p.step.jumping /\ ~p.jumping /\ p.falling /\ ~p.grounded
      /\ p.fallTimer > FallTime

\* C32: PlayerLocal.update sends the pose packet (entityModified with p, q, e)
\* only when the update time accumulated since the previous pose packet is at
\* least networkRate, sends at most one per call, and resets the accumulator
\* to 0 on each send.
C32_PoseRate ==
  \A c \in Clients :
    LET p == app[c].player
    IN  p.pose.ran =>
          /\ p.pose.sent <= 1
          /\ p.pose.sent = 1 => p.pose.after >= NetworkRate /\ p.lastSendAt = 0
          /\ p.pose.sent = 0 => p.pose.after < NetworkRate

\* two frames of 50 and 75 ms: the second sent the pose at exactly networkRate
C32_Witness ==
  LET p == app[1].player
  IN  /\ p.pose.ran /\ p.pose.sent = 1 /\ p.pose.after = NetworkRate
      /\ p.lastSendAt = 0 /\ p.elapsed = 0

\* C33: under every interleaving of move, rotate and scale requests on
\* different clients and of entityModified deliveries, at most one client at a
\* time has data.mover equal to its own network id.
C33_OneMover ==
  Cardinality({c \in Clients : app[c].exists /\ app[c].data.mover = app[c].id}) <= 1

\* C34: after a client has sent entityRemoved for an app (destroy(true)), it
\* sends no further entityModified or entityEvent for that entity, the
\* uploader: null of an upload that was pending at destroy time included.
C34_SilentAfterRemoved ==
  \A c \in Clients :
    LET a == app[c]
    IN  (a.dead /\ a.removed > 0) =>
          \A i \in DOMAIN a.sent :
            a.sent[i].name \notin {"entityModified", "entityEvent"}

\* C35: hotEvents always equals the number of the registered fixedUpdate,
\* update and lateUpdate listeners, and after any app.on and app.off calls
\* of the script of an ACTIVE app the app is in the hot set if and only if
\* at least one such listener is registered.
C35_HotEventsCount ==
  \A c \in Clients :
    LET a == app[c]
        hotListeners == {h \in a.callbacks : h.name \in hotEventNames}
    IN  /\ a.hotEvents = Cardinality(hotListeners)
        /\ (a.script /\ a.mode = Modes.ACTIVE /\ a.built.finished) =>
              (a.hot <=> hotListeners # {})

\* C36: app.send, app.emit and world.emit called with any of the names
\* fixedUpdate, update, lateUpdate, enter, leave or chat send no entityEvent
\* packet and emit no world event.
C36_NoLifecycleInjection ==
  \A c \in Clients :
    LET a == app[c]
        lifecycle == {"fixedUpdate", "update", "lateUpdate", "enter", "leave", "chat"}
    IN  /\ \A i \in DOMAIN a.sent :
              a.sent[i].name = "entityEvent" => a.sent[i].data.name \notin lifecycle
        /\ \A i \in DOMAIN a.worldEvents : a.worldEvents[i] \notin lifecycle

\* C37: once no avatar load of the player is in flight, the attached avatar
\* and avatarUrl are the avatar of the current data.user (or the default).
C37_AvatarSettles ==
  \A c \in Clients :
    LET p == app[c].player
    IN  p.inited /\ p.loads = <<>> =>
          p.avatar = wantedAvatar(p) /\ p.avatarUrl = wantedAvatar(p)

\* what exportApp is to hand to importApp for a blueprint and its files
Exported(blueprint, files) ==
  [ran |-> TRUE, threw |-> FALSE, version |-> PublicVersion,
   blueprint |-> [blueprint EXCEPT !.frozen = blueprint.locked \/ @],
   assets |-> exportAssets(blueprint, files)]

\* C39: importApp of an exported file returns the blueprint (frozen when it
\* was locked), the exporting version and, in the order model, script, props,
\* the type, the url and the bytes of every asset.
C39_RoundTrip ==
  \A c \in Clients :
    app[c].hyp.imported.ran =>
      app[c].hyp.imported = Exported(app[c].hyp.blueprint, app[c].hyp.files)

\* C40: every node gets pointerenter and pointerleave strictly alternating,
\* pointerenter first, also when a handler stops the propagation, and after
\* each update activePath is the ancestor path of the hit node.
C40_EnterLeaveAlternate ==
  \A c \in Clients :
    LET ps == app[c].pointerState
    IN  /\ ~ps.twice
        /\ ps.ran => ps.activePath = getAncestorPath(ps.hit)

====
